---------------------------- MODULE Spec2Model ----------------------------
(***************************************************************************)
(* A model of the dojogo serverless API (src/dojogo-api): the request      *)
(* handlers, the relational tables they read and write through             *)
(* execute_query (one autocommitted statement per call), the bearer-token  *)
(* decorator and the blob store the IMU finalize flow checks.              *)
(*                                                                         *)
(* Every handler is a small process: a request occupies a slot of `reqs`,  *)
(* its `pc` is the statement it executes next, its `loc` holds the         *)
(* handler's local variables and its `resp` the HTTP response once it is   *)
(* done.  One action is one execute_query call (or the pure code between   *)
(* two calls), so concurrent requests interleave exactly where the code    *)
(* lets them.                                                              *)
(***************************************************************************)
EXTENDS Integers, Sequences, FiniteSets, TLC

(***************************************************************************)
(* Bounds of the model.                                                    *)
(***************************************************************************)
NSlots == 2            \* request slots (requests that can be in flight)
MaxImuSessions == 2    \* rows of imu_sessions the create-only specifications admit
MaxFinalizable == 1    \* rows of imu_sessions the specifications with finalize admit
NThreads == 2          \* execute_query invocations that can be running at once
MaxConnects == 3       \* connections opened in all, in the execute_query specification

(***************************************************************************)
(* Nullable values (SQL NULL, Python None, an absent JSON field).          *)
(***************************************************************************)
None == << >>
Some(v) == << v >>
IsNone(o) == o = << >>
Val(o) == o[1]

Slots == 1 .. NSlots
Users == {"u1", "u2"}

SetMax(S) == CHOOSE x \in S : \A y \in S : y <= x

VARIABLES
  reqs,                \* slot -> the request in it: kind, pc, user, body, loc, resp
  devices,             \* table devices; device_id is the row's index
  imu_sessions,        \* table imu_sessions; imu_session_id is the row's index
  imu_client_uploads,  \* table imu_client_uploads (the idempotency ledger)
  imu_session_files,   \* table imu_session_files; file_id is the row's index
  imu_session_stats,   \* table imu_session_stats
  blobs,               \* the blob container "imu-alpha": set of [path, size]
  storage_ok,          \* AZURE_STORAGE_CONNECTION_STRING is configured and works
  hist,                \* history (not program state): what earlier calls answered
  users,               \* table users: set of rows, id the primary key
  sessions,            \* table sessions (tap sessions): set of rows, id the primary key
  session_starts,      \* table session_starts: sequence of rows
  now,                 \* the clock, in ticks of 1/TicksPerDay day
  execs                \* execute_query invocations and the connections and cursors open

vars == << reqs, devices, imu_sessions, imu_client_uploads, imu_session_files,
           imu_session_stats, blobs, storage_ok, hist, users, sessions,
           session_starts, now, execs >>

dbImu == << devices, imu_sessions, imu_client_uploads, imu_session_files,
            imu_session_stats >>

dbApp == << users, sessions, session_starts >>

\* What the IMU handlers leave alone besides their own tables.
envApp == << storage_ok, dbApp, now, execs >>

\* What the tap, profile and leaderboard handlers leave alone.
envImu == << dbImu, blobs, storage_ok, hist, execs >>

Idle == [kind |-> "idle", pc |-> "idle"]


InFlight(r) == reqs[r].pc \notin {"idle", "done"}
NoneInFlight == \A r \in Slots : ~InFlight(r)

\* The handler returns.  The slot keeps who asked, for what, and the response;
\* ghost is history: the rows the call wrote and what held when it began.
Done(req, response) ==
  [kind |-> req.kind, pc |-> "done", user |-> req.user, key |-> req.key,
   ghost |-> req.loc.ghost, resp |-> response]

Finish(r, response) == reqs' = [reqs EXCEPT ![r] = Done(reqs[r], response)]

Goto(r, label) == reqs' = [reqs EXCEPT ![r].pc = label]

NoGhost == [writes |-> 0, was_finalized |-> FALSE, well_formed |-> FALSE, faults |-> {},
            examined |-> 0]

(***************************************************************************)
(* CreateImuSession                                                        *)
(***************************************************************************)
valid_platforms == {"ios", "android", "switch", "other"}
valid_coord_frames == {"device", "world"}

\* datetime.fromisoformat(s.replace('Z', '+00:00')): the instant an ISO
\* string denotes, None for a string that raises ValueError.
fromisoformat(s) ==
  CASE s = "t1" -> Some(1)
    [] s = "t2" -> Some(2)
    [] OTHER -> None

\* f"users/{user_id}/sessions/{imu_session_id}/" and a blob path under it.
session_path(user_id, imu_session_id) == << "users", user_id, "sessions", imu_session_id >>
\* (A storage path built without the user's part.)
blob_path_NoUser(user_id, imu_session_id, filename) ==
  << "sessions", imu_session_id, filename >>

blob_path(user_id, imu_session_id, filename) ==
  session_path(user_id, imu_session_id) \o << filename >>

\* (The platform's enum check moved before the check that start_time_utc is given.)
CreateValidation_EnumFirst(body) ==
  IF IsNone(body.client_upload_id) THEN "client_upload_id is required"
  ELSE IF IsNone(body.platform) THEN "device_info.platform is required"
  ELSE IF Val(body.platform) \notin valid_platforms THEN "Invalid platform"
  ELSE IF IsNone(body.start_time_utc) THEN "start_time_utc is required"
  ELSE IF body.coord_frame \notin valid_coord_frames THEN "coord_frame must be 'device' or 'world'"
  ELSE IF IsNone(fromisoformat(Val(body.start_time_utc))) THEN "Invalid start_time_utc format"
  ELSE "ok"

\* Lines 41-88: the first failing check decides the 400.
CreateValidation(body) ==
  IF IsNone(body.client_upload_id) THEN "client_upload_id is required"
  ELSE IF IsNone(body.platform) THEN "device_info.platform is required"
  ELSE IF IsNone(body.start_time_utc) THEN "start_time_utc is required"
  ELSE IF Val(body.platform) \notin valid_platforms THEN "Invalid platform"
  ELSE IF body.coord_frame \notin valid_coord_frames THEN "coord_frame must be 'device' or 'world'"
  ELSE IF IsNone(fromisoformat(Val(body.start_time_utc))) THEN "Invalid start_time_utc format"
  ELSE "ok"

\* The payloads a client sends: the valid ones, and one per validation check.
ValidCreateBodies ==
  [client_upload_id : {Some("c1"), Some("c2")},
   platform : {Some("ios")},
   hw_id : {"h1"},
   start_time_utc : {Some("t1"), Some("t2")},
   nominal_hz : {50},
   coord_frame : {"device"}]

BaseCreateBody ==
  [client_upload_id |-> Some("c1"), platform |-> Some("ios"), hw_id |-> "h1",
   start_time_utc |-> Some("t1"), nominal_hz |-> 50, coord_frame |-> "device"]

InvalidCreateBodies ==
  { [BaseCreateBody EXCEPT !.client_upload_id = None],
    [BaseCreateBody EXCEPT !.platform = None],
    [BaseCreateBody EXCEPT !.start_time_utc = None],
    [BaseCreateBody EXCEPT !.platform = Some("windows")],
    [BaseCreateBody EXCEPT !.coord_frame = "body"],
    [BaseCreateBody EXCEPT !.start_time_utc = Some("yesterday")] }

CreateBodies == ValidCreateBodies \cup InvalidCreateBodies

\* (A lookup that forgets the client_upload_id condition.)
LedgerMatches_AnyUpload(user_id, client_upload_id) ==
  {k \in 1 .. Len(imu_client_uploads) :
     /\ imu_client_uploads[k].imu_session_id \in 1 .. Len(imu_sessions)
     /\ imu_sessions[imu_client_uploads[k].imu_session_id].user_id = user_id}

\* The ledger rows the join of lines 144-153 returns.
LedgerMatches(user_id, client_upload_id) ==
  {k \in 1 .. Len(imu_client_uploads) :
     /\ imu_client_uploads[k].client_upload_id = client_upload_id
     /\ imu_client_uploads[k].imu_session_id \in 1 .. Len(imu_sessions)
     /\ imu_sessions[imu_client_uploads[k].imu_session_id].user_id = user_id}

\* A create request is admitted only while imu_sessions has room for the row
\* it may insert (a request the ledger already answers inserts none).
CreateRoom(user_id, body, max) ==
  \/ Len(imu_sessions)
       + Cardinality({r \in Slots : InFlight(r) /\ reqs[r].kind = "CreateImuSession"})
       < max
  \/ /\ ~IsNone(body.client_upload_id)
     /\ LedgerMatches(user_id, Val(body.client_upload_id)) # {}

NoSession == [imu_session_id |-> 0, start_time_utc |-> 0, nominal_hz |-> 0,
              coord_frame |-> "none"]

CreateLocals ==
  [start_dt |-> 0, device_id |-> 0, session |-> NoSession, status_code |-> 0,
   ghost |-> NoGhost]

\* History of a create call: which of the payload's fields are at fault.
CreateFaults(body) ==
  {f \in {"client_upload_id", "platform", "start_time_utc", "platform_enum",
           "coord_frame", "start_time_format"} :
     \/ f = "client_upload_id" /\ IsNone(body.client_upload_id)
     \/ f = "platform" /\ IsNone(body.platform)
     \/ f = "start_time_utc" /\ IsNone(body.start_time_utc)
     \/ f = "platform_enum" /\ ~IsNone(body.platform) /\ Val(body.platform) \notin valid_platforms
     \/ f = "coord_frame" /\ body.coord_frame \notin valid_coord_frames
     \/ /\ f = "start_time_format"
        /\ ~IsNone(body.start_time_utc)
        /\ IsNone(fromisoformat(Val(body.start_time_utc)))}

\* Lines 19-97: read the body, validate, parse the start time.
CreateImuSession_Start(r, user_id, body) ==
  /\ ~InFlight(r)
  /\ LET check == CreateValidation(body)
         req == [kind |-> "CreateImuSession", pc |-> "c_device_select",
                 user |-> user_id, key |-> body.client_upload_id, body |-> body,
                 loc |-> [CreateLocals EXCEPT !.ghost.well_formed = CreateValidation(body) = "ok",
                                              !.ghost.faults = CreateFaults(body)]]
     IN IF check # "ok"
        THEN reqs' = [reqs EXCEPT ![r] = Done(req, [status |-> 400, error |-> check])]
        ELSE reqs' = [reqs EXCEPT ![r] =
                        [req EXCEPT !.loc.start_dt =
                                       Val(fromisoformat(Val(body.start_time_utc)))]]
  /\ UNCHANGED << dbImu, blobs, envApp, hist >>

DeviceMatches(user_id, hw_id) ==
  {d \in 1 .. Len(devices) : devices[d].user_id = user_id /\ devices[d].hw_id = hw_id}

\* Lines 100-110: SELECT device_id FROM devices WHERE user_id, hw_id.
CreateImuSession_DeviceSelect(r) ==
  /\ reqs[r].pc = "c_device_select"
  /\ LET found == DeviceMatches(reqs[r].user, reqs[r].body.hw_id)
     IN IF found # {}
        THEN \E d \in found :
               reqs' = [reqs EXCEPT ![r].pc = "c_device_update", ![r].loc.device_id = d]
        ELSE Goto(r, "c_device_insert")
  /\ UNCHANGED << dbImu, blobs, envApp, hist >>

\* Lines 113-121: UPDATE devices SET platform, model, ... WHERE device_id.
CreateImuSession_DeviceUpdate(r) ==
  /\ reqs[r].pc = "c_device_update"
  /\ devices' = [devices EXCEPT ![reqs[r].loc.device_id].platform = Val(reqs[r].body.platform)]
  /\ reqs' = [reqs EXCEPT ![r].pc = "c_ledger_select", ![r].loc.ghost.writes = @ + 1]
  /\ UNCHANGED << imu_sessions, imu_client_uploads, imu_session_files,
                  imu_session_stats, blobs, envApp, hist >>

\* Lines 124-130: INSERT INTO devices.
CreateImuSession_DeviceInsert(r) ==
  /\ reqs[r].pc = "c_device_insert"
  /\ devices' = Append(devices, [user_id |-> reqs[r].user, hw_id |-> reqs[r].body.hw_id,
                                 platform |-> Val(reqs[r].body.platform)])
  /\ reqs' = [reqs EXCEPT ![r].pc = "c_device_reselect", ![r].loc.ghost.writes = @ + 1]
  /\ UNCHANGED << imu_sessions, imu_client_uploads, imu_session_files,
                  imu_session_stats, blobs, envApp, hist >>

\* Lines 133-138: re-select the device; new_device[0] is any matching row.
CreateImuSession_DeviceReselect(r) ==
  /\ reqs[r].pc = "c_device_reselect"
  /\ \E d \in DeviceMatches(reqs[r].user, reqs[r].body.hw_id) :
       reqs' = [reqs EXCEPT ![r].pc = "c_ledger_select", ![r].loc.device_id = d]
  /\ UNCHANGED << dbImu, blobs, envApp, hist >>

SessionFields(sid) ==
  [imu_session_id |-> sid,
   start_time_utc |-> imu_sessions[sid].start_time_utc,
   nominal_hz |-> imu_sessions[sid].nominal_hz,
   coord_frame |-> imu_sessions[sid].coord_frame]

\* (A ledger hit answered with the start time, rate and frame of the payload.)
CreateImuSession_LedgerSelect_EchoPayload(r) ==
  /\ reqs[r].pc = "c_ledger_select"
  /\ LET found == LedgerMatches(reqs[r].user, Val(reqs[r].body.client_upload_id))
     IN IF found # {}
        THEN \E k \in found :
               reqs' = [reqs EXCEPT
                          ![r].pc = "c_sas",
                          ![r].loc.session =
                             [imu_session_id |-> imu_client_uploads[k].imu_session_id,
                              start_time_utc |-> reqs[r].loc.start_dt,
                              nominal_hz |-> reqs[r].body.nominal_hz,
                              coord_frame |-> reqs[r].body.coord_frame],
                          ![r].loc.status_code = 200]
        ELSE Goto(r, "c_session_insert")
  /\ UNCHANGED << dbImu, blobs, envApp, hist >>

\* Lines 144-160: the idempotency check, imu_sessions JOIN imu_client_uploads
\* on (user_id, client_upload_id); existing_session[0] is any row of the join.
CreateImuSession_LedgerSelect(r) ==
  /\ reqs[r].pc = "c_ledger_select"
  /\ LET found == LedgerMatches(reqs[r].user, Val(reqs[r].body.client_upload_id))
     IN IF found # {}
        THEN \E k \in found :
               reqs' = [reqs EXCEPT
                          ![r].pc = "c_sas",
                          ![r].loc.session = SessionFields(imu_client_uploads[k].imu_session_id),
                          ![r].loc.status_code = 200]
        ELSE Goto(r, "c_session_insert")
  /\ UNCHANGED << dbImu, blobs, envApp, hist >>

\* Lines 165-172: INSERT INTO imu_sessions; end_time_utc and actual_mean_hz
\* start NULL.  by_upload is history: the client upload the row was made for.
CreateImuSession_SessionInsert(r) ==
  /\ reqs[r].pc = "c_session_insert"
  /\ imu_sessions' = Append(imu_sessions,
       [user_id |-> reqs[r].user, device_id |-> reqs[r].loc.device_id,
        start_time_utc |-> reqs[r].loc.start_dt, nominal_hz |-> reqs[r].body.nominal_hz,
        coord_frame |-> reqs[r].body.coord_frame,
        end_time_utc |-> None, actual_mean_hz |-> None,
        by_upload |-> Val(reqs[r].body.client_upload_id)])
  /\ reqs' = [reqs EXCEPT ![r].pc = "c_session_reselect", ![r].loc.ghost.writes = @ + 1]
  /\ UNCHANGED << devices, imu_client_uploads, imu_session_files,
                  imu_session_stats, blobs, envApp, hist >>

\* Lines 175-188: SELECT ... WHERE user_id, device_id, start_time_utc
\* ORDER BY imu_session_id DESC LIMIT 1.
NewestSession(user_id, device_id, start_dt) ==
  SetMax({s \in 1 .. Len(imu_sessions) :
            /\ imu_sessions[s].user_id = user_id
            /\ imu_sessions[s].device_id = device_id
            /\ imu_sessions[s].start_time_utc = start_dt})

CreateImuSession_SessionReselect(r) ==
  /\ reqs[r].pc = "c_session_reselect"
  /\ reqs' = [reqs EXCEPT
                ![r].pc = "c_ledger_insert",
                ![r].loc.session =
                   SessionFields(NewestSession(reqs[r].user, reqs[r].loc.device_id,
                                               reqs[r].loc.start_dt))]
  /\ UNCHANGED << dbImu, blobs, envApp, hist >>

\* (The ledger row left to be written after the credential is minted.)
CreateImuSession_LedgerInsert_AfterSas(r) ==
  /\ reqs[r].pc = "c_ledger_insert"
  /\ reqs' = [reqs EXCEPT ![r].pc = "c_sas", ![r].loc.status_code = 201]
  /\ UNCHANGED << dbImu, blobs, envApp, hist >>

\* Lines 191-199: INSERT INTO imu_client_uploads (imu_session_id, client_upload_id).
CreateImuSession_LedgerInsert(r) ==
  /\ reqs[r].pc = "c_ledger_insert"
  /\ imu_client_uploads' = Append(imu_client_uploads,
       [imu_session_id |-> reqs[r].loc.session.imu_session_id,
        client_upload_id |-> Val(reqs[r].body.client_upload_id)])
  /\ reqs' = [reqs EXCEPT ![r].pc = "c_sas", ![r].loc.status_code = 201,
                           ![r].loc.ghost.writes = @ + 1]
  /\ UNCHANGED << devices, imu_sessions, imu_session_files,
                  imu_session_stats, blobs, envApp, hist >>

\* What the history keeps of the create calls of one (user, client_upload_id):
\* how many were answered 200 or 201 (counted up to 2), the first's session,
\* and the session of a call that was answered 500 at the credential.
NoCreates == [n |-> 0, first_sid |-> 0, failed |-> None]

CreateKey(r) == << reqs[r].user, Val(reqs[r].body.client_upload_id) >>

\* Lines 204-281: mint the SAS credential and build the response; 500 when
\* the storage connection string is absent or minting raises.
CreateImuSession_Respond(r) ==
  /\ reqs[r].pc = "c_sas"
  /\ IF ~storage_ok
     THEN /\ Finish(r, [status |-> 500, error |-> "Blob storage not configured"])
          /\ hist' = [hist EXCEPT !.creates[CreateKey(r)].failed =
                                     Some(reqs[r].loc.session.imu_session_id)]
     ELSE LET s == reqs[r].loc.session
              before == hist.creates[CreateKey(r)]
          IN /\ Finish(r, [status |-> reqs[r].loc.status_code,
                           imu_session_id |-> s.imu_session_id,
                           device_id |-> reqs[r].loc.device_id,
                           start_time_utc |-> s.start_time_utc,
                           nominal_hz |-> s.nominal_hz,
                           coord_frame |-> s.coord_frame,
                           path |-> session_path(reqs[r].user, s.imu_session_id),
                           nth |-> before.n + 1])
             /\ hist' = [hist EXCEPT !.creates[CreateKey(r)] =
                           [before EXCEPT
                              !.n = IF before.n < 2 THEN before.n + 1 ELSE 2,
                              !.first_sid = IF before.n = 0 THEN s.imu_session_id
                                            ELSE before.first_sid]]
  /\ UNCHANGED << dbImu, blobs, envApp >>

\* Lines 217-255: the storage service raises while the container is ensured
\* or the SAS is generated; answered 500 with the rows already committed.
CreateImuSession_MintFails(r) ==
  /\ reqs[r].pc = "c_sas"
  /\ storage_ok
  /\ Finish(r, [status |-> 500, error |-> "Failed to generate SAS token"])
  /\ hist' = [hist EXCEPT !.creates[CreateKey(r)].failed =
                             Some(reqs[r].loc.session.imu_session_id)]
  /\ UNCHANGED << dbImu, blobs, envApp >>

\* Lines 175-199 with 283-289: execute_query raises after the imu_sessions
\* row was committed and before the ledger row is, at the re-SELECT or at the
\* ledger INSERT; the except clause answers 500.
CreateImuSession_LedgerFails(r) ==
  /\ reqs[r].pc \in {"c_session_reselect", "c_ledger_insert"}
  /\ Finish(r, [status |-> 500, error |-> "Internal server error"])
  /\ UNCHANGED << dbImu, blobs, envApp, hist >>

\* The deployment's AZURE_STORAGE_CONNECTION_STRING is set or removed.
ConfigureStorage(ok) ==
  /\ storage_ok # ok
  /\ storage_ok' = ok
  /\ UNCHANGED << reqs, dbImu, blobs, dbApp, now, hist, execs >>
(***************************************************************************)
(* FinalizeImuManifest                                                     *)
(***************************************************************************)
valid_purposes == {"raw", "manifest", "device", "calib", "events"}
Sha256HexLen == 64

\* One entry of the request's `files`: absent JSON fields are None.
FileA == [filename |-> Some("a.bin"), purpose |-> "raw", bytes_size |-> Some(1),
          num_samples |-> Some(5), sha256_len |-> Sha256HexLen]
FileB == [filename |-> Some("b.json"), purpose |-> "manifest", bytes_size |-> Some(2),
          num_samples |-> None, sha256_len |-> Sha256HexLen]
\* A file the client never uploads.
FileC == [filename |-> Some("c.bin"), purpose |-> "raw", bytes_size |-> Some(1),
          num_samples |-> Some(5), sha256_len |-> Sha256HexLen]

FileLists ==
  { << >>,
    << FileA >>,
    << FileA, FileB >>,
    << FileA, FileA >>,
    << [FileA EXCEPT !.bytes_size = None] >>,
    << [FileA EXCEPT !.bytes_size = Some(2)], FileB >>,
    << FileA, [FileB EXCEPT !.purpose = "video"] >>,
    << [FileA EXCEPT !.sha256_len = 10] >>,
    << FileB, [FileA EXCEPT !.filename = None] >>,
    << FileC, FileA, FileC >>,
    << [FileA EXCEPT !.bytes_size = Some(2)], FileC, [FileB EXCEPT !.bytes_size = Some(3)] >> }

CompleteStats == [samples_total |-> Some(100), duration_ms |-> Some(2000), mean_hz |-> Some(50)]

RateStats ==
  { None, Some(CompleteStats), Some([CompleteStats EXCEPT !.samples_total = None]) }

ValidFinalizeBodies ==
  [end_time_utc : {Some("t2")}, files : FileLists, rate_stats : {None}]
    \cup [end_time_utc : {Some("t2")}, files : {<< >>, << FileA >>}, rate_stats : RateStats]

BaseFinalizeBody == [end_time_utc |-> Some("t2"), files |-> << FileA >>, rate_stats |-> None]

\* The finalize calls a client makes: the well-formed ones on the ids the model
\* can hold, and one call per rejection that precedes the session's load.
FinalizeCalls ==
  { [route |-> Some(i), body |-> b] : i \in 1 .. MaxImuSessions, b \in ValidFinalizeBodies }
    \cup { [route |-> None, body |-> BaseFinalizeBody],
           [route |-> Some(MaxImuSessions + 1), body |-> BaseFinalizeBody],
           [route |-> Some(1), body |-> [BaseFinalizeBody EXCEPT !.end_time_utc = None]],
           [route |-> Some(1), body |-> [BaseFinalizeBody EXCEPT !.end_time_utc = Some("soon")]] }


FinalizeLocals ==
  [end_dt |-> 0, session_end |-> None, i |-> 1, total_bytes |-> 0, total_samples |-> 0,
   ghost |-> NoGhost]

\* Lines 19-74: route parameter, body, end_time_utc present and parseable.
\* was_finalized is history: whether the session was finalized when the call began.
FinalizeImuManifest_Start(r, user_id, route_id, body) ==
  /\ ~InFlight(r)
  /\ LET imu_session_id == IF IsNone(route_id) THEN 0 ELSE Val(route_id)
         req == [kind |-> "FinalizeImuManifest", pc |-> "f_session_select",
                 user |-> user_id, key |-> route_id, sid |-> imu_session_id, body |-> body,
                 loc |-> [FinalizeLocals EXCEPT
                            !.ghost.well_formed = body \in ValidFinalizeBodies,
                            !.ghost.was_finalized =
                               /\ imu_session_id \in 1 .. Len(imu_sessions)
                               /\ ~IsNone(imu_sessions[imu_session_id].end_time_utc)]]
         bad(msg) == reqs' = [reqs EXCEPT ![r] = Done(req, [status |-> 400, error |-> msg])]
     IN IF IsNone(route_id)
        THEN bad("imu_session_id must be a valid integer")
        ELSE IF IsNone(body.end_time_utc)
        THEN bad("end_time_utc is required")
        ELSE IF IsNone(fromisoformat(Val(body.end_time_utc)))
        THEN bad("Invalid end_time_utc format")
        ELSE reqs' = [reqs EXCEPT ![r] =
                        [req EXCEPT !.loc.end_dt = Val(fromisoformat(Val(body.end_time_utc)))]]
  /\ UNCHANGED << dbImu, blobs, envApp, hist >>

\* (The session loaded without the comparison of its user_id with the caller.)
FinalizeImuManifest_SessionSelect_NoOwnerCheck(r) ==
  /\ reqs[r].pc = "f_session_select"
  /\ LET sid == reqs[r].sid
     IN IF sid \notin 1 .. Len(imu_sessions)
        THEN Finish(r, [status |-> 404, error |-> "IMU session not found"])
        ELSE IF ~IsNone(imu_sessions[sid].end_time_utc)
        THEN reqs' = [reqs EXCEPT ![r].pc = "f_existing_files",
                                  ![r].loc.session_end = imu_sessions[sid].end_time_utc]
        ELSE Goto(r, "f_verify_blobs")
  /\ UNCHANGED << dbImu, blobs, envApp, hist >>

\* Lines 79-107: load the session; 404, 403, or the replay branch.
FinalizeImuManifest_SessionSelect(r) ==
  /\ reqs[r].pc = "f_session_select"
  /\ LET sid == reqs[r].sid
     IN IF sid \notin 1 .. Len(imu_sessions)
        THEN Finish(r, [status |-> 404, error |-> "IMU session not found"])
        ELSE IF imu_sessions[sid].user_id # reqs[r].user
        THEN Finish(r, [status |-> 403, error |-> "Unauthorized: session belongs to different user"])
        ELSE IF ~IsNone(imu_sessions[sid].end_time_utc)
        THEN reqs' = [reqs EXCEPT ![r].pc = "f_existing_files",
                                  ![r].loc.session_end = imu_sessions[sid].end_time_utc]
        ELSE Goto(r, "f_verify_blobs")
  /\ UNCHANGED << dbImu, blobs, envApp, hist >>

FileRowsOf(sid) ==
  {k \in 1 .. Len(imu_session_files) : imu_session_files[k].imu_session_id = sid}

RECURSIVE SumOver(_, _)
\* The sum of column col over the rows K of imu_session_files, NULLs skipped.
SumOver(K, col) ==
  IF K = {} THEN 0
  ELSE LET k == CHOOSE x \in K : TRUE
           v == imu_session_files[k][col]
       IN (IF IsNone(v) THEN 0 ELSE Val(v)) + SumOver(K \ {k}, col)

\* SQL SUM(col): NULL over no non-NULL value, else the sum of the non-NULL ones.
SqlSumBytes(K) ==
  LET nn == {k \in K : ~IsNone(imu_session_files[k].bytes_size)}
  IN IF nn = {} THEN None ELSE Some(SumOver(nn, "bytes_size"))

SqlSumSamples(K) ==
  LET nn == {k \in K : ~IsNone(imu_session_files[k].num_samples)}
  IN IF nn = {} THEN None ELSE Some(SumOver(nn, "num_samples"))

\* Lines 109-121: SELECT COUNT(*), SUM(bytes_size), SUM(num_samples); the row's
\* keys are present, so totals.get(key, 0) returns the column's value, NULL included.
ExistingFileTotals(sid) ==
  [total_files |-> Cardinality(FileRowsOf(sid)),
   total_bytes |-> SqlSumBytes(FileRowsOf(sid)),
   total_samples |-> SqlSumSamples(FileRowsOf(sid))]

\* Lines 109-135: the replay answers 200 with the totals of the stored rows.
FinalizeImuManifest_Replay(r) ==
  /\ reqs[r].pc = "f_existing_files"
  /\ LET totals == ExistingFileTotals(reqs[r].sid)
     IN Finish(r, [status |-> 200, replay |-> TRUE,
                   total_files |-> totals.total_files,
                   total_bytes |-> totals.total_bytes,
                   total_samples |-> totals.total_samples,
                   end_time_utc |-> reqs[r].loc.session_end])
  /\ UNCHANGED << dbImu, blobs, envApp, hist >>
BlobSize(path) ==
  IF \E b \in blobs : b.path = path
  THEN Some((CHOOSE b \in blobs : b.path = path).size)
  ELSE None

RECURSIVE VerifyBlobs(_, _, _)
\* Lines 156-198: the loop over `files` and the check after it.  A missing
\* filename or a size mismatch returns at once, an absent blob is collected.
VerifyBlobs(base, files, missing_files) ==
  IF files = << >>
  THEN IF missing_files # << >>
       THEN [status |-> 400, error |-> "Some files not found in blob storage",
             missing_files |-> missing_files]
       ELSE [status |-> 200, error |-> "", missing_files |-> << >>]
  ELSE LET file_info == Head(files)
           actual_size == BlobSize(base \o << Val(file_info.filename) >>)
           claimed_size == file_info.bytes_size
       IN IF IsNone(file_info.filename)
          THEN [status |-> 400, error |-> "Each file must have a 'filename' field",
                missing_files |-> << >>]
          ELSE IF IsNone(actual_size)
          THEN VerifyBlobs(base, Tail(files), Append(missing_files, Val(file_info.filename)))
          ELSE IF ~IsNone(claimed_size) /\ Val(claimed_size) # 0 /\ actual_size # claimed_size
          THEN [status |-> 400, error |-> "File size mismatch", missing_files |-> << >>]
          ELSE VerifyBlobs(base, Tail(files), missing_files)

RECURSIVE Examined(_, _)
\* Lines 156-188: how many entries of `files` the loop looks at before it
\* returns or ends.
Examined(base, files) ==
  IF files = << >> THEN 0
  ELSE LET file_info == Head(files)
           actual_size == BlobSize(base \o << Val(file_info.filename) >>)
           claimed_size == file_info.bytes_size
       IN IF IsNone(file_info.filename) THEN 1
          ELSE IF /\ ~IsNone(actual_size)
                  /\ ~IsNone(claimed_size) /\ Val(claimed_size) # 0 /\ actual_size # claimed_size
          THEN 1
          ELSE 1 + Examined(base, Tail(files))

FinalizeNext(r) == IF reqs[r].loc.i < Len(reqs[r].body.files) THEN "f_file_select" ELSE "f_update"

\* (The loop gives up at the first absent blob and reports that one alone.)
FinalizeImuManifest_VerifyBlobs_FirstMissing(r) ==
  /\ reqs[r].pc = "f_verify_blobs"
  /\ IF ~storage_ok
     THEN Finish(r, [status |-> 500, error |-> "Blob storage not configured"])
     ELSE LET base == session_path(reqs[r].user, reqs[r].sid)
              v == VerifyBlobs(base, reqs[r].body.files, << >>)
              q == [reqs[r] EXCEPT !.loc.ghost.examined = Examined(base, reqs[r].body.files)]
          IN IF v.status # 200
             THEN reqs' = [reqs EXCEPT ![r] =
                     Done(q, [status |-> v.status, error |-> v.error,
                              missing_files |-> SubSeq(v.missing_files, 1, 1)])]
             ELSE reqs' = [reqs EXCEPT ![r] =
                     [q EXCEPT !.pc = IF reqs[r].body.files = << >> THEN "f_update"
                                      ELSE "f_file_select"]]
  /\ UNCHANGED << dbImu, blobs, envApp, hist >>

\* Lines 140-206: storage configured, every blob present with the claimed size.
FinalizeImuManifest_VerifyBlobs(r) ==
  /\ reqs[r].pc = "f_verify_blobs"
  /\ IF ~storage_ok
     THEN Finish(r, [status |-> 500, error |-> "Blob storage not configured"])
     ELSE LET base == session_path(reqs[r].user, reqs[r].sid)
              v == VerifyBlobs(base, reqs[r].body.files, << >>)
              q == [reqs[r] EXCEPT !.loc.ghost.examined = Examined(base, reqs[r].body.files)]
          IN IF v.status # 200
             THEN reqs' = [reqs EXCEPT ![r] =
                     Done(q, [status |-> v.status, error |-> v.error,
                              missing_files |-> v.missing_files])]
             ELSE reqs' = [reqs EXCEPT ![r] =
                     [q EXCEPT !.pc = IF reqs[r].body.files = << >> THEN "f_update"
                                      ELSE "f_file_select"]]
  /\ UNCHANGED << dbImu, blobs, envApp, hist >>

\* bytes_size = file_info.get('bytes_size', 0)
BytesOf(file_info) == IF IsNone(file_info.bytes_size) THEN 0 ELSE Val(file_info.bytes_size)
\* if num_samples: total_samples += num_samples
SamplesOf(file_info) == IF IsNone(file_info.num_samples) THEN 0 ELSE Val(file_info.num_samples)

\* Lines 262-264 and the loop's advance.
FinalizeAccumulate(r, file_info) ==
  [reqs[r].loc EXCEPT !.i = @ + 1,
                      !.total_bytes = @ + BytesOf(file_info),
                      !.total_samples = @ + SamplesOf(file_info)]

FileRegistered(sid, purpose, storage_url) ==
  \E k \in FileRowsOf(sid) :
     /\ imu_session_files[k].purpose = purpose
     /\ imu_session_files[k].storage_url = storage_url

\* (The loop moving on from a registered file before the totals are added.)
FinalizeImuManifest_FileSelect_SkipRegistered(r) ==
  /\ reqs[r].pc = "f_file_select"
  /\ LET file_info == reqs[r].body.files[reqs[r].loc.i]
         storage_url == blob_path(reqs[r].user, reqs[r].sid, Val(file_info.filename))
     IN IF file_info.purpose \notin valid_purposes
        THEN Finish(r, [status |-> 400, error |-> "Invalid purpose"])
        ELSE IF file_info.sha256_len # 0 /\ file_info.sha256_len # Sha256HexLen
        THEN Finish(r, [status |-> 400, error |-> "Invalid SHA-256 checksum"])
        ELSE IF FileRegistered(reqs[r].sid, file_info.purpose, storage_url)
        THEN reqs' = [reqs EXCEPT ![r].pc = FinalizeNext(r), ![r].loc.i = @ + 1]
        ELSE Goto(r, "f_file_insert")
  /\ UNCHANGED << dbImu, blobs, envApp, hist >>

\* Lines 214-250: validate purpose and checksum of file i, then
\* SELECT file_id ... WHERE imu_session_id, purpose, storage_url.
FinalizeImuManifest_FileSelect(r) ==
  /\ reqs[r].pc = "f_file_select"
  /\ LET file_info == reqs[r].body.files[reqs[r].loc.i]
         storage_url == blob_path(reqs[r].user, reqs[r].sid, Val(file_info.filename))
     IN IF file_info.purpose \notin valid_purposes
        THEN Finish(r, [status |-> 400, error |-> "Invalid purpose"])
        ELSE IF file_info.sha256_len # 0 /\ file_info.sha256_len # Sha256HexLen
        THEN Finish(r, [status |-> 400, error |-> "Invalid SHA-256 checksum"])
        ELSE IF FileRegistered(reqs[r].sid, file_info.purpose, storage_url)
        THEN reqs' = [reqs EXCEPT ![r].pc = FinalizeNext(r),
                                  ![r].loc = FinalizeAccumulate(r, file_info)]
        ELSE Goto(r, "f_file_insert")
  /\ UNCHANGED << dbImu, blobs, envApp, hist >>

\* Lines 252-264: INSERT INTO imu_session_files.
FinalizeImuManifest_FileInsert(r) ==
  /\ reqs[r].pc = "f_file_insert"
  /\ LET file_info == reqs[r].body.files[reqs[r].loc.i]
     IN /\ imu_session_files' = Append(imu_session_files,
             [imu_session_id |-> reqs[r].sid, purpose |-> file_info.purpose,
              storage_url |-> blob_path(reqs[r].user, reqs[r].sid, Val(file_info.filename)),
              bytes_size |-> Some(BytesOf(file_info)),
              num_samples |-> file_info.num_samples])
        /\ reqs' = [reqs EXCEPT ![r].pc = FinalizeNext(r),
                                ![r].loc = [FinalizeAccumulate(r, file_info) EXCEPT !.ghost.writes = @ + 1]]
  /\ UNCHANGED << devices, imu_sessions, imu_client_uploads, imu_session_stats,
                  blobs, envApp, hist >>

\* all([samples_total, duration_ms, mean_hz]) of a rate_stats that is given.
StatsComplete(rate_stats) ==
  /\ ~IsNone(rate_stats)
  /\ ~IsNone(Val(rate_stats).samples_total)
  /\ ~IsNone(Val(rate_stats).duration_ms)
  /\ ~IsNone(Val(rate_stats).mean_hz)

\* Lines 329-342: the 200 of a finalize that registered its files; the totals
\* are those of the request's list.  The history keeps the first such answer
\* of each session and the number of file rows the session then had.
FinalizeRespond(r, locals) ==
  /\ reqs' = [reqs EXCEPT ![r] =
       Done([reqs[r] EXCEPT !.loc = locals],
            [status |-> 200, replay |-> FALSE,
             total_files |-> Len(reqs[r].body.files),
             total_bytes |-> Some(locals.total_bytes),
             total_samples |-> Some(locals.total_samples),
             end_time_utc |-> Some(locals.end_dt)])]
  /\ hist' = IF IsNone(hist.finals[reqs[r].sid])
             THEN [hist EXCEPT !.finals[reqs[r].sid] =
                     Some([total_files |-> Len(reqs[r].body.files),
                           total_bytes |-> Some(locals.total_bytes),
                           total_samples |-> Some(locals.total_samples),
                           file_rows |-> Cardinality(FileRowsOf(reqs[r].sid))])]
             ELSE hist

\* (The UPDATE with its first two parameters swapped.)
SessionAfterUpdate_Swapped(row, end_dt, rate_stats) ==
  [row EXCEPT !.end_time_utc = IF IsNone(rate_stats) THEN None ELSE Val(rate_stats).mean_hz,
              !.actual_mean_hz = Some(end_dt)]

\* Lines 269-280: UPDATE imu_sessions SET end_time_utc, actual_mean_hz.
SessionAfterUpdate(row, end_dt, rate_stats) ==
  [row EXCEPT !.end_time_utc = Some(end_dt),
              !.actual_mean_hz = IF IsNone(rate_stats) THEN None ELSE Val(rate_stats).mean_hz]

FinalizeImuManifest_Update(r) ==
  /\ reqs[r].pc = "f_update"
  /\ imu_sessions' = [imu_sessions EXCEPT ![reqs[r].sid] =
       SessionAfterUpdate(@, reqs[r].loc.end_dt, reqs[r].body.rate_stats)]
  /\ LET locals == [reqs[r].loc EXCEPT !.ghost.writes = @ + 1]
     IN IF StatsComplete(reqs[r].body.rate_stats)
        THEN /\ reqs' = [reqs EXCEPT ![r].pc = "f_stats_select", ![r].loc = locals]
             /\ hist' = hist
        ELSE FinalizeRespond(r, locals)
  /\ UNCHANGED << devices, imu_client_uploads, imu_session_files, imu_session_stats,
                  blobs, envApp >>

\* Lines 295-301 and 321-342: SELECT imu_session_id FROM imu_session_stats.
FinalizeImuManifest_StatsSelect(r) ==
  /\ reqs[r].pc = "f_stats_select"
  /\ IF \E k \in 1 .. Len(imu_session_stats) : imu_session_stats[k].imu_session_id = reqs[r].sid
     THEN FinalizeRespond(r, reqs[r].loc)
     ELSE Goto(r, "f_stats_insert") /\ hist' = hist
  /\ UNCHANGED << dbImu, blobs, envApp >>

\* Lines 303-342: INSERT INTO imu_session_stats, then the response.
FinalizeImuManifest_StatsInsert(r) ==
  /\ reqs[r].pc = "f_stats_insert"
  /\ imu_session_stats' = Append(imu_session_stats,
       [imu_session_id |-> reqs[r].sid, mean_hz |-> Val(Val(reqs[r].body.rate_stats).mean_hz)])
  /\ FinalizeRespond(r, [reqs[r].loc EXCEPT !.ghost.writes = @ + 1])
  /\ UNCHANGED << devices, imu_sessions, imu_client_uploads, imu_session_files,
                  blobs, envApp >>

(***************************************************************************)
(* GetImuSession: one session with its files, or the caller's sessions.    *)
(***************************************************************************)
GetLocals == [ghost |-> NoGhost]

\* Lines 19-26: a route id selects get_single_session, none list_sessions.
GetImuSession_Start(r, user_id, route_id) ==
  /\ ~InFlight(r)
  /\ reqs' = [reqs EXCEPT ![r] =
       [kind |-> "GetImuSession",
        pc |-> IF IsNone(route_id) THEN "l_count" ELSE "g_session_select",
        user |-> user_id, key |-> route_id,
        sid |-> IF IsNone(route_id) THEN 0 ELSE Val(route_id),
        loc |-> GetLocals]]
  /\ UNCHANGED << dbImu, blobs, envApp, hist >>

\* Lines 42-82: load the session; 404 or 403.
GetImuSession_SessionSelect(r) ==
  /\ reqs[r].pc = "g_session_select"
  /\ LET sid == reqs[r].sid
     IN IF sid \notin 1 .. Len(imu_sessions)
        THEN Finish(r, [status |-> 404, error |-> "IMU session not found"])
        ELSE IF imu_sessions[sid].user_id # reqs[r].user
        THEN Finish(r, [status |-> 403, error |-> "Unauthorized: session belongs to different user"])
        ELSE Goto(r, "g_files_select")
  /\ UNCHANGED << dbImu, blobs, envApp, hist >>

\* Lines 85-141: SELECT the session's files and answer.
GetImuSession_FilesSelect(r) ==
  /\ reqs[r].pc = "g_files_select"
  /\ Finish(r, [status |-> 200, imu_session_id |-> reqs[r].sid,
                files |-> FileRowsOf(reqs[r].sid)])
  /\ UNCHANGED << dbImu, blobs, envApp, hist >>

SessionsOfUser(user_id) == {s \in 1 .. Len(imu_sessions) : imu_sessions[s].user_id = user_id}

\* Lines 161-166: SELECT COUNT(*) FROM imu_sessions WHERE user_id.
GetImuSession_ListCount(r) ==
  /\ reqs[r].pc = "l_count"
  /\ reqs' = [reqs EXCEPT ![r].pc = "l_select",
                          ![r].loc = [ghost |-> NoGhost,
                                      total |-> Cardinality(SessionsOfUser(reqs[r].user))]]
  /\ UNCHANGED << dbImu, blobs, envApp, hist >>

\* Lines 169-222: SELECT the caller's sessions (default limit and offset) and answer.
GetImuSession_ListSelect(r) ==
  /\ reqs[r].pc = "l_select"
  /\ reqs' = [reqs EXCEPT ![r] =
       [kind |-> "GetImuSession", pc |-> "done", user |-> reqs[r].user, key |-> None,
        ghost |-> NoGhost,
        resp |-> [status |-> 200, sessions |-> SessionsOfUser(reqs[r].user),
                  total |-> reqs[r].loc.total]]]
  /\ UNCHANGED << dbImu, blobs, envApp, hist >>

(***************************************************************************)
(* shared/auth.py: the bearer token and the require_auth decorator.        *)
(***************************************************************************)
\* The Authorization header: absent, not of the form "Bearer <token>", or a
\* bearer token.  A token is a string that is not a JWT, or a JWT with a
\* subject whose signature, audience and issuer are right or wrong.
Jwt(sub, sig, aud, iss) ==
  [jwt |-> TRUE, sub |-> sub, signature_ok |-> sig, audience_ok |-> aud, issuer_ok |-> iss]

NotAJwt == [jwt |-> FALSE]

ValidToken(sub) == Jwt(sub, TRUE, TRUE, TRUE)

Tokens ==
  {NotAJwt} \cup {ValidToken(u) : u \in Users}
            \cup {Jwt("u1", FALSE, TRUE, TRUE), Jwt("u1", TRUE, FALSE, TRUE),
                  Jwt("u1", TRUE, TRUE, FALSE)}

NoHeader == [scheme |-> "none"]
Bearer(token) == [scheme |-> "bearer", token |-> token]
Headers == {NoHeader, [scheme |-> "basic"]} \cup {Bearer(t) : t \in Tokens}

\* Lines 11-24: the token of "Bearer <token>", None for anything else.
get_token_from_header(header) ==
  IF header.scheme = "bearer" THEN Some(header.token) ELSE None

\* Line 118: jwt.decode(token, options={"verify_signature": False}) returns the
\* payload of any well-formed JWT and raises for a string that is not one.
decode_unverified(token) ==
  IF token.jwt THEN Some([sub |-> token.sub]) ELSE None

\* Lines 99-149: the decorator's outcome before the wrapped function runs:
\* 401 without a token or with an undecodable one, else req.user_id.
require_auth(header) ==
  LET token == get_token_from_header(header)
  IN IF IsNone(token)
     THEN [ok |-> FALSE, status |-> 401, error |-> "No authorization token provided"]
     ELSE IF IsNone(decode_unverified(Val(token)))
     THEN [ok |-> FALSE, status |-> 401, error |-> "Invalid token"]
     ELSE [ok |-> TRUE, user_id |-> Val(decode_unverified(Val(token))).sub]

\* Whether the request carries a token that full verification would accept.
Verifies(header) ==
  /\ header.scheme = "bearer"
  /\ header.token.jwt
  /\ header.token.signature_ok /\ header.token.audience_ok /\ header.token.issuer_ok

(***************************************************************************)
(* The tap, profile and leaderboard handlers.                              *)
(***************************************************************************)
\* Bookkeeping of one call: datastore statements run, and those that wrote.
AppGhost == [db |-> 0, writes |-> 0, header |-> NoHeader]

Read(g) == [g EXCEPT !.db = @ + 1]
Wrote(g) == [g EXCEPT !.db = @ + 1, !.writes = @ + 1]

\* A call answered before its first statement.
Refuse(r, kind, header, response) ==
  reqs' = [reqs EXCEPT ![r] =
     [kind |-> kind, pc |-> "done", user |-> "", key |-> None,
      ghost |-> [AppGhost EXCEPT !.header = header], resp |-> response]]

\* A call that enters its handler.
Enter(r, kind, header, user_id, body, label, locals) ==
  reqs' = [reqs EXCEPT ![r] =
     [kind |-> kind, pc |-> label, user |-> user_id, key |-> None, body |-> body,
      loc |-> [locals EXCEPT !.ghost.header = header]]]

\* The handler's except branch: 500.
InternalError == [status |-> 500, error |-> "Internal server error"]

UserRow(user_id) == CHOOSE u \in users : u.id = user_id
UserExists(user_id) == \E u \in users : u.id = user_id

TicksPerDay == 2
Day(t) == t \div TicksPerDay

(***************************************************************************)
(* CreateUser                                                              *)
(***************************************************************************)
UserBodies ==
  { [name |-> Some(m), email |-> Some(e), nickname |-> n] :
      m \in {"n", "m"}, e \in {"e1", "e2"}, n \in {None, Some("nickA")} }
  \cup { [name |-> None, email |-> Some("e1"), nickname |-> None] }

NewUser(user_id, body) ==
  [id |-> user_id, name |-> Val(body.name), email |-> Val(body.email),
   nickname |-> body.nickname,
   nickname_last_changed |-> IF IsNone(body.nickname) THEN None ELSE Some(now),
   kendo_rank |-> None, kendo_experience_years |-> 0, kendo_experience_months |-> 0,
   streak |-> 0, total_count |-> 0]

\* History of a create-user call: whether the subject had a row when the call
\* began, that row, and whether another user held the payload's email or
\* nickname.
UserGhost(user_id, body) ==
  [db |-> 0, writes |-> 0, header |-> NoHeader,
   known |-> UserExists(user_id),
   before |-> IF UserExists(user_id) THEN Some(UserRow(user_id)) ELSE None,
   free |-> \A u \in users :
               u.id # user_id =>
                  /\ u.email # Val(body.email)
                  /\ IsNone(body.nickname) \/ u.nickname # body.nickname]

\* Lines 14-40: authentication, then the required fields.
CreateUser_Start(r, header, body) ==
  /\ ~InFlight(r)
  /\ LET auth == require_auth(header)
     IN IF ~auth.ok
        THEN Refuse(r, "CreateUser", header, [status |-> auth.status, error |-> auth.error])
        ELSE IF IsNone(body) \/ IsNone(Val(body).name) \/ IsNone(Val(body).email)
        THEN Refuse(r, "CreateUser", header, [status |-> 400, error |-> "Missing required fields"])
        ELSE Enter(r, "CreateUser", header, auth.user_id, Val(body), "cu_select",
                   [ghost |-> UserGhost(auth.user_id, Val(body))])
  /\ UNCHANGED << envImu, dbApp, now >>

\* Lines 43-83: SELECT id FROM users; an existing user is read and returned.
CreateUser_Select(r) ==
  /\ reqs[r].pc = "cu_select"
  /\ reqs' = [reqs EXCEPT ![r].pc = IF UserExists(reqs[r].user) THEN "cu_existing" ELSE "cu_insert",
                          ![r].loc.ghost = Read(@)]
  /\ UNCHANGED << envImu, dbApp, now >>

UserResponse(user_id) ==
  IF UserExists(user_id) THEN Some(UserRow(user_id)) ELSE None

\* (An existing user's email overwritten from the payload, as an upsert would.)
CreateUser_Existing_Upsert(r) ==
  /\ reqs[r].pc = "cu_existing"
  /\ users' = {IF u.id = reqs[r].user THEN [u EXCEPT !.email = Val(reqs[r].body.email)] ELSE u :
                 u \in users}
  /\ reqs' = [reqs EXCEPT ![r] =
        Done([reqs[r] EXCEPT !.loc.ghost = Read(@)],
             [status |-> 200, user |-> UserResponse(reqs[r].user)])]
  /\ UNCHANGED << envImu, sessions, session_starts, now >>

\* Lines 49-83: the existing user is read and returned with 200.
CreateUser_Existing(r) ==
  /\ reqs[r].pc = "cu_existing"
  /\ reqs' = [reqs EXCEPT ![r] =
        Done([reqs[r] EXCEPT !.loc.ghost = Read(@)],
             [status |-> 200, user |-> UserResponse(reqs[r].user)])]
  /\ UNCHANGED << envImu, dbApp, now >>

\* The unique keys of table users: id, email, nickname (NULLs apart).
UserInsertable(row) ==
  \A u \in users :
     /\ u.id # row.id
     /\ u.email # row.email
     /\ IsNone(row.nickname) \/ u.nickname # row.nickname

\* Lines 86-95: INSERT INTO users; a duplicate key raises, answered 500.
CreateUser_Insert(r) ==
  /\ reqs[r].pc = "cu_insert"
  /\ LET row == NewUser(reqs[r].user, reqs[r].body)
     IN IF UserInsertable(row)
        THEN /\ users' = users \cup {row}
             /\ reqs' = [reqs EXCEPT ![r].pc = "cu_reselect", ![r].loc.ghost = Wrote(@)]
        ELSE /\ reqs' = [reqs EXCEPT ![r] =
                  Done([reqs[r] EXCEPT !.loc.ghost = Read(@)], InternalError)]
             /\ UNCHANGED users
  /\ UNCHANGED << envImu, sessions, session_starts, now >>

\* Lines 98-130: read the row back and answer 201.
CreateUser_Reselect(r) ==
  /\ reqs[r].pc = "cu_reselect"
  /\ reqs' = [reqs EXCEPT ![r] =
        Done([reqs[r] EXCEPT !.loc.ghost = Read(@)],
             [status |-> 201, user |-> UserResponse(reqs[r].user)])]
  /\ UNCHANGED << envImu, dbApp, now >>

(***************************************************************************)
(* LogSessionStart                                                         *)
(***************************************************************************)
MaxSessionStarts == 2

LogSessionStart_Start(r, header) ==
  /\ ~InFlight(r)
  /\ Len(session_starts) < MaxSessionStarts
  /\ LET auth == require_auth(header)
     IN IF ~auth.ok
        THEN Refuse(r, "LogSessionStart", header, [status |-> auth.status, error |-> auth.error])
        ELSE Enter(r, "LogSessionStart", header, auth.user_id, None, "ls_insert",
                   [ghost |-> AppGhost])
  /\ UNCHANGED << envImu, dbApp, now >>

\* Lines 21-33: INSERT INTO session_starts; the foreign key needs the user.
LogSessionStart_Insert(r) ==
  /\ reqs[r].pc = "ls_insert"
  /\ IF UserExists(reqs[r].user)
     THEN /\ session_starts' = Append(session_starts, [user_id |-> reqs[r].user])
          /\ reqs' = [reqs EXCEPT ![r] =
               Done([reqs[r] EXCEPT !.loc.ghost = Wrote(@)],
                    [status |-> 201, user_id |-> reqs[r].user])]
     ELSE /\ reqs' = [reqs EXCEPT ![r] =
               Done([reqs[r] EXCEPT !.loc.ghost = Read(@)], InternalError)]
          /\ UNCHANGED session_starts
  /\ UNCHANGED << envImu, users, sessions, now >>

(***************************************************************************)
(* CreateSession: a tap session, the user's total and streak.              *)
(***************************************************************************)
MaxTapSessions == 3

SessionIds == {"s1", "s2", "s3"}

SessionBodies ==
  { Some([id |-> Some(i), tapCount |-> Some(IF i = "s2" THEN 3 ELSE 2), duration |-> Some(1)]) :
      i \in SessionIds }
  \cup { None,
         Some([id |-> None, tapCount |-> Some(2), duration |-> Some(1)]),
         Some([id |-> Some("s1"), tapCount |-> None, duration |-> Some(1)]),
         Some([id |-> Some("s1"), tapCount |-> Some(0), duration |-> None]) }

\* COUNT(*) FROM sessions WHERE user_id = %s AND DATE(created_at) = %s
SessionsOn(user_id, day) ==
  Cardinality({s \in sessions : s.user_id = user_id /\ Day(s.created_at) = day})

TapLocals ==
  [today |-> 0, yesterday_count |-> 0, today_count |-> 0,
   ghost |-> [db |-> 0, writes |-> 0, header |-> NoHeader,
              first_of_day |-> FALSE, prior_day |-> FALSE, streak_before |-> 0]]

\* Lines 14-39: authentication, then the body and its required fields.
CreateSession_Start(r, header, body) ==
  /\ ~InFlight(r)
  /\ LET auth == require_auth(header)
     IN IF ~auth.ok
        THEN Refuse(r, "CreateSession", header, [status |-> auth.status, error |-> auth.error])
        ELSE IF IsNone(body)
        THEN Refuse(r, "CreateSession", header, [status |-> 400, error |-> "Request body required"])
        ELSE IF IsNone(Val(body).id) \/ IsNone(Val(body).tapCount) \/ IsNone(Val(body).duration)
        THEN Refuse(r, "CreateSession", header, [status |-> 400, error |-> "Missing required fields"])
        ELSE Enter(r, "CreateSession", header, auth.user_id, Val(body), "cs_insert", TapLocals)
  /\ UNCHANGED << envImu, dbApp, now >>

\* Lines 42-45: INSERT INTO sessions; created_at is the store's clock.  A
\* duplicate id or a user_id without a users row raises, answered 500.
CreateSession_Insert(r) ==
  /\ reqs[r].pc = "cs_insert"
  /\ LET user_id == reqs[r].user
         row == [id |-> Val(reqs[r].body.id), user_id |-> user_id,
                 tap_count |-> Val(reqs[r].body.tapCount), created_at |-> now]
     IN IF UserExists(user_id) /\ \A s \in sessions : s.id # row.id
        THEN /\ sessions' = sessions \cup {row}
             /\ reqs' = [reqs EXCEPT ![r].pc = "cs_total",
                           ![r].loc.ghost = [Wrote(@) EXCEPT
                              !.first_of_day = SessionsOn(user_id, Day(now)) = 0,
                              !.prior_day = SessionsOn(user_id, Day(now) - 1) > 0,
                              !.streak_before = UserRow(user_id).streak]]
        ELSE /\ reqs' = [reqs EXCEPT ![r] =
                  Done([reqs[r] EXCEPT !.loc.ghost = Read(@)], InternalError)]
             /\ UNCHANGED sessions
  /\ UNCHANGED << envImu, users, session_starts, now >>

\* (An UPDATE that stores the session's tap count as the total.)
CreateSession_UpdateTotal_Overwrite(r) ==
  /\ reqs[r].pc = "cs_total"
  /\ users' = {IF u.id = reqs[r].user
               THEN [u EXCEPT !.total_count = Val(reqs[r].body.tapCount)]
               ELSE u : u \in users}
  /\ reqs' = [reqs EXCEPT ![r].pc = "cs_yesterday", ![r].loc.ghost = Wrote(@)]
  /\ UNCHANGED << envImu, sessions, session_starts, now >>

\* Lines 48-51: UPDATE users SET total_count = total_count + tap_count.
CreateSession_UpdateTotal(r) ==
  /\ reqs[r].pc = "cs_total"
  /\ users' = {IF u.id = reqs[r].user
               THEN [u EXCEPT !.total_count = @ + Val(reqs[r].body.tapCount)]
               ELSE u : u \in users}
  /\ reqs' = [reqs EXCEPT ![r].pc = "cs_yesterday", ![r].loc.ghost = Wrote(@)]
  /\ UNCHANGED << envImu, sessions, session_starts, now >>

\* Lines 54-62: today = datetime.now().date(); count yesterday's sessions.
CreateSession_CountYesterday(r) ==
  /\ reqs[r].pc = "cs_yesterday"
  /\ reqs' = [reqs EXCEPT ![r].pc = "cs_today",
                ![r].loc.today = Day(now),
                ![r].loc.yesterday_count = SessionsOn(reqs[r].user, Day(now) - 1),
                ![r].loc.ghost = Read(@)]
  /\ UNCHANGED << envImu, dbApp, now >>

\* Lines 65-69: count today's sessions, the one just inserted included.
CreateSession_CountToday(r) ==
  /\ reqs[r].pc = "cs_today"
  /\ reqs' = [reqs EXCEPT ![r].pc = "cs_streak",
                ![r].loc.today_count = SessionsOn(reqs[r].user, reqs[r].loc.today),
                ![r].loc.ghost = Read(@)]
  /\ UNCHANGED << envImu, dbApp, now >>

\* (A rule that extends the streak on every first session of a day.)
StreakAfter_AlwaysExtend(streak, today_count, yesterday_count) ==
  IF today_count = 1 THEN streak + 1 ELSE streak

\* Lines 72-84: the streak after the day's first session.
StreakAfter(streak, today_count, yesterday_count) ==
  IF today_count = 1
  THEN IF yesterday_count > 0 THEN streak + 1 ELSE 1
  ELSE streak

\* Lines 72-85: UPDATE users SET streak (no statement when not first today).
CreateSession_UpdateStreak(r) ==
  /\ reqs[r].pc = "cs_streak"
  /\ users' = {IF u.id = reqs[r].user
               THEN [u EXCEPT !.streak = StreakAfter(@, reqs[r].loc.today_count,
                                                     reqs[r].loc.yesterday_count)]
               ELSE u : u \in users}
  /\ reqs' = [reqs EXCEPT ![r].pc = "cs_user",
                ![r].loc.ghost = IF reqs[r].loc.today_count = 1 THEN Wrote(@) ELSE @]
  /\ UNCHANGED << envImu, sessions, session_starts, now >>

\* Lines 88-115: read the user back and answer 201.
CreateSession_Respond(r) ==
  /\ reqs[r].pc = "cs_user"
  /\ reqs' = [reqs EXCEPT ![r] =
        Done([reqs[r] EXCEPT !.loc.ghost = Read(@)],
             [status |-> 201, session_id |-> Val(reqs[r].body.id),
              user |-> UserResponse(reqs[r].user)])]
  /\ UNCHANGED << envImu, dbApp, now >>

(***************************************************************************)
(* UpdateNickname and UpdateProfile: the nickname and its cooldown.        *)
(***************************************************************************)
CooldownDays == 30
MinNicknameLen == 3
MaxNicknameLen == 50

\* len(nickname) of the nicknames callers send.
len(nickname) ==
  CASE nickname = "" -> 0
    [] nickname = "ab" -> 2
    [] nickname = "nickA" -> 5
    [] nickname = "nickB" -> 5
    [] nickname = "a_nickname_of_fifty_one_characters" -> 51

NicknameLengthOk(nickname) ==
  MinNicknameLen <= len(nickname) /\ len(nickname) <= MaxNicknameLen

\* (datetime.now() - last_changed).days: whole days, rounded down.
DaysSince(last_changed, t) == (t - last_changed) \div TicksPerDay

\* (A cooldown that still holds on the thirtieth day.)
CooldownActive_Inclusive(last_changed, t) ==
  /\ ~IsNone(last_changed)
  /\ DaysSince(Val(last_changed), t) <= CooldownDays

\* UpdateNickname lines 61-64, UpdateProfile lines 63-66.
CooldownActive(last_changed, t) ==
  /\ ~IsNone(last_changed)
  /\ DaysSince(Val(last_changed), t) < CooldownDays

\* SELECT id FROM users WHERE nickname = %s AND id != %s
NicknameTaken(nickname, user_id) ==
  \E u \in users : u.nickname = Some(nickname) /\ u.id # user_id

CooldownResponse(last_changed, t) ==
  [status |-> 429, daysRemaining |-> CooldownDays - DaysSince(Val(last_changed), t)]

\* What a call is asked to do and what it found stored when it began.
NickGhost(header, user_id, nickname, fields_ok) ==
  [db |-> 0, writes |-> 0, header |-> header,
   nickname |-> nickname,
   fields_ok |-> fields_ok,
   known |-> UserExists(user_id),
   stored |-> IF UserExists(user_id) THEN UserRow(user_id).nickname ELSE None,
   last_changed |-> IF UserExists(user_id) THEN UserRow(user_id).nickname_last_changed ELSE None,
   at |-> now,
   taken |-> ~IsNone(nickname) /\ NicknameTaken(Val(nickname), user_id)]

NicknameBodies ==
  { None, Some([nickname |-> None]) }
  \cup { Some([nickname |-> Some(n)]) :
           n \in {"", "ab", "nickA", "nickB", "a_nickname_of_fifty_one_characters"} }

\* UpdateNickname lines 14-44: authentication, then the nickname's checks.
UpdateNickname_Start(r, header, body) ==
  /\ ~InFlight(r)
  /\ LET auth == require_auth(header)
     IN IF ~auth.ok
        THEN Refuse(r, "UpdateNickname", header, [status |-> auth.status, error |-> auth.error])
        ELSE LET g == NickGhost(header, auth.user_id,
                                IF IsNone(body) THEN None ELSE Val(body).nickname, TRUE)
                 answer(response) ==
                   reqs' = [reqs EXCEPT ![r] =
                      [kind |-> "UpdateNickname", pc |-> "done", user |-> auth.user_id,
                       key |-> None, ghost |-> g, resp |-> response]]
             IN IF IsNone(body)
                THEN answer([status |-> 400, error |-> "Request body required"])
                ELSE IF IsNone(Val(body).nickname) \/ Val(body).nickname = Some("")
                THEN answer([status |-> 400, error |-> "Nickname is required"])
                ELSE IF ~NicknameLengthOk(Val(Val(body).nickname))
                THEN answer([status |-> 400, error |-> "Nickname must be 3-50 characters"])
                ELSE reqs' = [reqs EXCEPT ![r] =
                        [kind |-> "UpdateNickname", pc |-> "un_user", user |-> auth.user_id,
                         key |-> None, body |-> Val(body), loc |-> [ghost |-> g]]]
  /\ UNCHANGED << envImu, dbApp, now >>

\* UpdateNickname lines 47-73: the user's last change; 404; the cooldown.
UpdateNickname_UserSelect(r) ==
  /\ reqs[r].pc = "un_user"
  /\ LET q == [reqs[r] EXCEPT !.loc.ghost = Read(@)]
     IN IF ~UserExists(q.user)
        THEN reqs' = [reqs EXCEPT ![r] = Done(q, [status |-> 404, error |-> "User not found"])]
        ELSE IF CooldownActive(UserRow(q.user).nickname_last_changed, now)
        THEN reqs' = [reqs EXCEPT ![r] =
                Done(q, CooldownResponse(UserRow(q.user).nickname_last_changed, now))]
        ELSE reqs' = [reqs EXCEPT ![r] = [q EXCEPT !.pc = "un_taken"]]
  /\ UNCHANGED << envImu, dbApp, now >>

\* UpdateNickname lines 76-87: is the nickname another user's?
UpdateNickname_TakenSelect(r) ==
  /\ reqs[r].pc = "un_taken"
  /\ LET q == [reqs[r] EXCEPT !.loc.ghost = Read(@)]
     IN IF NicknameTaken(Val(q.body.nickname), q.user)
        THEN reqs' = [reqs EXCEPT ![r] =
                Done(q, [status |-> 409, error |-> "Nickname is already taken"])]
        ELSE reqs' = [reqs EXCEPT ![r] = [q EXCEPT !.pc = "un_update"]]
  /\ UNCHANGED << envImu, dbApp, now >>

\* UpdateNickname lines 90-93: UPDATE users SET nickname, nickname_last_changed
\* = NOW(); the unique key on nickname makes a taken one raise, answered 500.
UpdateNickname_Update(r) ==
  /\ reqs[r].pc = "un_update"
  /\ IF NicknameTaken(Val(reqs[r].body.nickname), reqs[r].user) /\ UserExists(reqs[r].user)
     THEN /\ reqs' = [reqs EXCEPT ![r] =
                Done([reqs[r] EXCEPT !.loc.ghost = Read(@)], InternalError)]
          /\ UNCHANGED users
     ELSE /\ users' = {IF u.id = reqs[r].user
                       THEN [u EXCEPT !.nickname = reqs[r].body.nickname,
                                      !.nickname_last_changed = Some(now)]
                       ELSE u : u \in users}
          /\ reqs' = [reqs EXCEPT ![r].pc = "un_reselect", ![r].loc.ghost = Wrote(@)]
  /\ UNCHANGED << envImu, sessions, session_starts, now >>

\* UpdateNickname lines 96-129, UpdateProfile lines 148-184: read the user
\* back; 200, or 500 when the row is gone.
UpdatedUserResponse(user_id) ==
  IF UserExists(user_id)
  THEN [status |-> 200, user |-> Some(UserRow(user_id))]
  ELSE [status |-> 500, error |-> "Failed to retrieve updated user"]

UpdateNickname_Reselect(r) ==
  /\ reqs[r].pc = "un_reselect"
  /\ reqs' = [reqs EXCEPT ![r] =
        Done([reqs[r] EXCEPT !.loc.ghost = Read(@)], UpdatedUserResponse(reqs[r].user))]
  /\ UNCHANGED << envImu, dbApp, now >>

valid_ranks ==
  {"unranked", "9kyu", "8kyu", "7kyu", "6kyu", "5kyu", "4kyu", "3kyu", "2kyu", "1kyu",
   "1dan", "2dan", "3dan", "4dan", "5dan", "6dan", "7dan", "8dan"}

MaxExperienceYears == 100
MaxExperienceMonths == 11

NoProfile ==
  [nickname |-> None, kendoRank |-> None, kendoExperienceYears |-> None,
   kendoExperienceMonths |-> None]

ProfileBodies ==
  { None, Some(NoProfile) }
  \cup { Some([NoProfile EXCEPT !.nickname = Some(n), !.kendoRank = k]) :
           n \in {"", "ab", "nickA", "nickB"}, k \in {None, Some("10dan")} }
  \cup { Some([NoProfile EXCEPT !.kendoRank = Some("2dan")]),
         Some([NoProfile EXCEPT !.kendoExperienceYears = Some(5),
                                !.kendoExperienceMonths = Some(6)]),
         Some([NoProfile EXCEPT !.nickname = Some("nickB"),
                                !.kendoExperienceYears = Some(101)]),
         Some([NoProfile EXCEPT !.nickname = Some("nickB"),
                                !.kendoExperienceMonths = Some(12)]) }

\* UpdateProfile lines 96-139: the checks of the other fields, in order.
ProfileFieldCheck(body) ==
  IF ~IsNone(body.kendoRank) /\ Val(body.kendoRank) \notin valid_ranks
  THEN "Invalid kendo rank"
  ELSE IF /\ ~IsNone(body.kendoExperienceYears)
          /\ Val(body.kendoExperienceYears) \notin 0 .. MaxExperienceYears
  THEN "Invalid experience years (must be 0-100)"
  ELSE IF /\ ~IsNone(body.kendoExperienceMonths)
          /\ Val(body.kendoExperienceMonths) \notin 0 .. MaxExperienceMonths
  THEN "Invalid experience months (must be 0-11)"
  ELSE IF body = NoProfile
  THEN "No fields to update"
  ELSE "ok"

\* UpdateProfile lines 14-32: authentication and the body.
UpdateProfile_Start(r, header, body) ==
  /\ ~InFlight(r)
  /\ LET auth == require_auth(header)
     IN IF ~auth.ok
        THEN Refuse(r, "UpdateProfile", header, [status |-> auth.status, error |-> auth.error])
        ELSE LET g == NickGhost(header, auth.user_id,
                                IF IsNone(body) THEN None ELSE Val(body).nickname,
                                ~IsNone(body) /\ ProfileFieldCheck(Val(body)) = "ok")
             IN IF IsNone(body)
                THEN reqs' = [reqs EXCEPT ![r] =
                        [kind |-> "UpdateProfile", pc |-> "done", user |-> auth.user_id,
                         key |-> None, ghost |-> g,
                         resp |-> [status |-> 400, error |-> "Request body required"]]]
                ELSE reqs' = [reqs EXCEPT ![r] =
                        [kind |-> "UpdateProfile", pc |-> "up_user", user |-> auth.user_id,
                         key |-> None, body |-> Val(body), loc |-> [ghost |-> g]]]
  /\ UNCHANGED << envImu, dbApp, now >>

\* The step after the nickname's part: the other fields' checks, then the UPDATE.
ProfileFieldsThenUpdate(q) ==
  IF ProfileFieldCheck(q.body) # "ok"
  THEN Done(q, [status |-> 400, error |-> ProfileFieldCheck(q.body)])
  ELSE [q EXCEPT !.pc = "up_update"]

\* UpdateProfile lines 35-75: the user's last change; 404; with a nickname,
\* its length and the cooldown.
UpdateProfile_UserSelect(r) ==
  /\ reqs[r].pc = "up_user"
  /\ LET q == [reqs[r] EXCEPT !.loc.ghost = Read(@)]
     IN IF ~UserExists(q.user)
        THEN reqs' = [reqs EXCEPT ![r] = Done(q, [status |-> 404, error |-> "User not found"])]
        ELSE IF IsNone(q.body.nickname)
        THEN reqs' = [reqs EXCEPT ![r] = ProfileFieldsThenUpdate(q)]
        ELSE IF ~NicknameLengthOk(Val(q.body.nickname))
        THEN reqs' = [reqs EXCEPT ![r] =
                Done(q, [status |-> 400, error |-> "Nickname must be 3-50 characters"])]
        ELSE IF CooldownActive(UserRow(q.user).nickname_last_changed, now)
        THEN reqs' = [reqs EXCEPT ![r] =
                Done(q, CooldownResponse(UserRow(q.user).nickname_last_changed, now))]
        ELSE reqs' = [reqs EXCEPT ![r] = [q EXCEPT !.pc = "up_taken"]]
  /\ UNCHANGED << envImu, dbApp, now >>

\* UpdateProfile lines 78-139: is the nickname another user's?  Then the
\* other fields.
UpdateProfile_TakenSelect(r) ==
  /\ reqs[r].pc = "up_taken"
  /\ LET q == [reqs[r] EXCEPT !.loc.ghost = Read(@)]
     IN IF NicknameTaken(Val(q.body.nickname), q.user)
        THEN reqs' = [reqs EXCEPT ![r] =
                Done(q, [status |-> 409, error |-> "Nickname is already taken"])]
        ELSE reqs' = [reqs EXCEPT ![r] = ProfileFieldsThenUpdate(q)]
  /\ UNCHANGED << envImu, dbApp, now >>

\* The row after UPDATE users SET <the fields the body carries>.
ProfileApplied(u, body, t) ==
  [u EXCEPT !.nickname = IF IsNone(body.nickname) THEN @ ELSE body.nickname,
            !.nickname_last_changed = IF IsNone(body.nickname) THEN @ ELSE Some(t),
            !.kendo_rank = IF IsNone(body.kendoRank) THEN @ ELSE body.kendoRank,
            !.kendo_experience_years =
               IF IsNone(body.kendoExperienceYears) THEN @ ELSE Val(body.kendoExperienceYears),
            !.kendo_experience_months =
               IF IsNone(body.kendoExperienceMonths) THEN @ ELSE Val(body.kendoExperienceMonths)]

\* UpdateProfile lines 142-145: the UPDATE; a taken nickname raises, answered 500.
UpdateProfile_Update(r) ==
  /\ reqs[r].pc = "up_update"
  /\ IF /\ ~IsNone(reqs[r].body.nickname)
        /\ NicknameTaken(Val(reqs[r].body.nickname), reqs[r].user)
        /\ UserExists(reqs[r].user)
     THEN /\ reqs' = [reqs EXCEPT ![r] =
                Done([reqs[r] EXCEPT !.loc.ghost = Read(@)], InternalError)]
          /\ UNCHANGED users
     ELSE /\ users' = {IF u.id = reqs[r].user THEN ProfileApplied(u, reqs[r].body, now)
                       ELSE u : u \in users}
          /\ reqs' = [reqs EXCEPT ![r].pc = "up_reselect", ![r].loc.ghost = Wrote(@)]
  /\ UNCHANGED << envImu, sessions, session_starts, now >>

UpdateProfile_Reselect(r) ==
  /\ reqs[r].pc = "up_reselect"
  /\ reqs' = [reqs EXCEPT ![r] =
        Done([reqs[r] EXCEPT !.loc.ghost = Read(@)], UpdatedUserResponse(reqs[r].user))]
  /\ UNCHANGED << envImu, dbApp, now >>

(***************************************************************************)
(* GetLeaderboard                                                          *)
(***************************************************************************)
DefaultLimit == 100

\* The query parameter `limit`: absent, an integer literal, or another string.
IntParam(n) == [numeric |-> TRUE, value |-> n]
NotInt == [numeric |-> FALSE]
LimitParams == {None, Some(NotInt)} \cup {Some(IntParam(n)) : n \in {-1, 0, 1, 2, 101, 10000}}
TypeParams == {None, Some("total"), Some("streak"), Some("weekly")}

\* Line 20: int(req.params.get('limit', 100)); None where int() raises.
ParseLimit(param) ==
  IF IsNone(param) THEN Some(DefaultLimit)
  ELSE IF Val(param).numeric THEN Some(Val(param).value)
  ELSE None

\* Lines 30-45: the rows the query selects, and their order.
Score(u, type) == IF type = "total" THEN u.total_count ELSE u.streak
Other(u, type) == IF type = "total" THEN u.streak ELSE u.total_count
Listed(type) == {u \in users : Score(u, type) > 0}
RanksBefore(a, b, type) ==
  \/ Score(a, type) > Score(b, type)
  \/ Score(a, type) = Score(b, type) /\ Other(a, type) >= Other(b, type)

\* ORDER BY ... LIMIT limit: the first rows of an ordering of the listed
\* users (the store picks among equals).
TopRows(type, limit) ==
  LET n == IF Cardinality(Listed(type)) < limit THEN Cardinality(Listed(type)) ELSE limit
  IN {f \in [1 .. n -> Listed(type)] :
        /\ \A i, j \in 1 .. n : i < j => f[i] # f[j] /\ RanksBefore(f[i], f[j], type)
        /\ \A i \in 1 .. n : \A u \in Listed(type) :
              (\A j \in 1 .. n : f[j] # u) => RanksBefore(f[i], u, type)}

LeaderboardLocals == [type |-> "total", limit |-> 0,
                      ghost |-> [db |-> 0, writes |-> 0, header |-> NoHeader, sql_limit |-> None]]

\* Lines 14-27: no authentication; the parameters.
GetLeaderboard_Start(r, header, type, limit) ==
  /\ ~InFlight(r)
  /\ LET g == [LeaderboardLocals.ghost EXCEPT !.header = header]
         answer(response) ==
           reqs' = [reqs EXCEPT ![r] =
              [kind |-> "GetLeaderboard", pc |-> "done", user |-> "", key |-> limit,
               ghost |-> g, resp |-> response]]
         leaderboard_type == IF IsNone(type) THEN "total" ELSE Val(type)
     IN IF IsNone(ParseLimit(limit))
        THEN answer(InternalError)
        ELSE IF leaderboard_type \notin {"total", "streak"}
        THEN answer([status |-> 400, error |-> "Invalid leaderboard type"])
        ELSE reqs' = [reqs EXCEPT ![r] =
                [kind |-> "GetLeaderboard", pc |-> "gl_query", user |-> "", key |-> limit,
                 loc |-> [type |-> leaderboard_type, limit |-> Val(ParseLimit(limit)),
                          ghost |-> g]]]
  /\ UNCHANGED << envImu, dbApp, now >>

\* Lines 47-60: the query with LIMIT limit (a negative LIMIT is an SQL error,
\* answered 500), then the response.
GetLeaderboard_Query(r) ==
  /\ reqs[r].pc = "gl_query"
  /\ LET q == [reqs[r] EXCEPT !.loc.ghost = [Read(@) EXCEPT !.sql_limit = Some(reqs[r].loc.limit)]]
     IN IF q.loc.limit < 0
        THEN reqs' = [reqs EXCEPT ![r] = Done(q, InternalError)]
        ELSE \E rows \in TopRows(q.loc.type, q.loc.limit) :
                reqs' = [reqs EXCEPT ![r] =
                   Done(q, [status |-> 200, type |-> q.loc.type,
                            leaderboard |-> [i \in DOMAIN rows |-> rows[i].id]])]
  /\ UNCHANGED << envImu, dbApp, now >>

(***************************************************************************)
(* UpdateUserId                                                            *)
(***************************************************************************)
UserIdBodies ==
  { None, Some([old_id |-> Some("u1"), new_id |-> None]) }
  \cup { Some([old_id |-> Some(a), new_id |-> Some(b)]) : a, b \in Users }

\* Lines 12-28: no authentication; the body's fields.
UpdateUserId_Start(r, header, body) ==
  /\ ~InFlight(r)
  /\ LET g == [AppGhost EXCEPT !.header = header]
         answer(response) ==
           reqs' = [reqs EXCEPT ![r] =
              [kind |-> "UpdateUserId", pc |-> "done", user |-> "", key |-> None,
               ghost |-> g, resp |-> response]]
     IN IF IsNone(body)
        THEN answer(InternalError)
        ELSE IF IsNone(Val(body).old_id) \/ IsNone(Val(body).new_id)
        THEN answer([status |-> 400, error |-> "Missing required fields: old_id, new_id"])
        ELSE reqs' = [reqs EXCEPT ![r] =
                [kind |-> "UpdateUserId", pc |-> "uu_users", user |-> "", key |-> None,
                 body |-> [old_id |-> Val(Val(body).old_id), new_id |-> Val(Val(body).new_id)],
                 loc |-> [ghost |-> g]]]
  /\ UNCHANGED << envImu, dbApp, now >>

\* Line 39: UPDATE users SET id = new_id WHERE id = old_id; an id in use
\* raises, answered 500.
UpdateUserId_Users(r) ==
  /\ reqs[r].pc = "uu_users"
  /\ LET b == reqs[r].body
     IN IF UserExists(b.old_id) /\ UserExists(b.new_id) /\ b.old_id # b.new_id
        THEN /\ reqs' = [reqs EXCEPT ![r] =
                   Done([reqs[r] EXCEPT !.loc.ghost = Read(@)], InternalError)]
             /\ UNCHANGED users
        ELSE /\ users' = {IF u.id = b.old_id THEN [u EXCEPT !.id = b.new_id] ELSE u : u \in users}
             /\ reqs' = [reqs EXCEPT ![r].pc = "uu_sessions", ![r].loc.ghost = Wrote(@)]
  /\ UNCHANGED << envImu, sessions, session_starts, now >>

\* Line 40: UPDATE sessions SET user_id = new_id WHERE user_id = old_id.
UpdateUserId_Sessions(r) ==
  /\ reqs[r].pc = "uu_sessions"
  /\ sessions' = {IF s.user_id = reqs[r].body.old_id
                  THEN [s EXCEPT !.user_id = reqs[r].body.new_id] ELSE s : s \in sessions}
  /\ reqs' = [reqs EXCEPT ![r].pc = "uu_starts", ![r].loc.ghost = Wrote(@)]
  /\ UNCHANGED << envImu, users, session_starts, now >>

\* Lines 41-53: UPDATE session_starts likewise, then 200.
UpdateUserId_SessionStarts(r) ==
  /\ reqs[r].pc = "uu_starts"
  /\ session_starts' =
        [i \in DOMAIN session_starts |->
           IF session_starts[i].user_id = reqs[r].body.old_id
           THEN [user_id |-> reqs[r].body.new_id] ELSE session_starts[i]]
  /\ reqs' = [reqs EXCEPT ![r] =
        Done([reqs[r] EXCEPT !.loc.ghost = Wrote(@)],
             [status |-> 200, message |-> "User ID updated successfully"])]
  /\ UNCHANGED << envImu, users, sessions, now >>

(***************************************************************************)
(* The clock.                                                              *)
(***************************************************************************)
\* Time passes: ticks more, up to max.
Advance(ticks, max) ==
  /\ now + ticks <= max
  /\ now' = now + ticks
  /\ UNCHANGED << reqs, envImu, dbApp >>

(***************************************************************************)
(* The client's uploads into the container, under the path create handed   *)
(* out.                                                                    *)
(***************************************************************************)
UploadedFiles == { [filename |-> "a.bin", size |-> 1], [filename |-> "b.json", size |-> 2] }

\* The client uploads the session's files (all of UploadedFiles, once).
UploadBlobs(sid) ==
  /\ sid \in 1 .. Len(imu_sessions)
  /\ LET base == session_path(imu_sessions[sid].user_id, sid)
         up == { [path |-> base \o << c.filename >>, size |-> c.size] : c \in UploadedFiles }
     IN /\ up \cap blobs = {}
        /\ blobs' = blobs \cup up
  /\ UNCHANGED << reqs, dbImu, envApp, hist >>

(***************************************************************************)
(* Specifications                                                          *)
(***************************************************************************)
CreateKeys == Users \X {"c1", "c2"}

(***************************************************************************)
(* shared/database.py: execute_query, statement by statement.              *)
(***************************************************************************)
Threads == 1 .. NThreads

\* Lines 58-59: connection = None, cursor = None.
NoExec == [pc |-> "idle", fetch |-> FALSE, select |-> FALSE,
           connection |-> None, cursor |-> None, outcome |-> "none"]

Returned(i) == execs.inv[i].pc \in {"idle", "returned", "raised"}

notExecs == << reqs, dbImu, blobs, storage_ok, hist, dbApp, now >>

\* Line 46: execute_query(query, params, fetch) is called.
execute_query_Call(i, fetch, select) ==
  /\ Returned(i)
  /\ execs' = [execs EXCEPT !.inv[i] = [NoExec EXCEPT !.pc = "connect", !.fetch = fetch,
                                                     !.select = select]]
  /\ UNCHANGED notExecs

\* Line 62 with lines 10-28: mysql.connector.connect gives a new connection,
\* or raises Error, which get_db_connection logs and raises again.
execute_query_Connect(i, ok) ==
  /\ execs.inv[i].pc = "connect"
  /\ IF ok
     THEN /\ execs.connects < MaxConnects
          /\ execs' = [execs EXCEPT !.connects = @ + 1,
                                    !.open_connections = @ \cup {execs.connects + 1},
                                    !.inv[i].connection = Some(execs.connects + 1),
                                    !.inv[i].pc = "execute"]
     ELSE execs' = [execs EXCEPT !.inv[i].pc = "finally", !.inv[i].outcome = "raised"]
  /\ UNCHANGED notExecs

\* Lines 63-80: the cursor, the statement and the fetch; a statement error
\* is logged and raised again.
execute_query_Execute(i, ok) ==
  /\ execs.inv[i].pc = "execute"
  /\ LET c == Val(execs.inv[i].connection)
     IN execs' = [execs EXCEPT
          !.open_cursors = @ \cup {c},
          !.inv[i].cursor = Some(c),
          !.inv[i].pc = "finally",
          !.inv[i].outcome =
             IF ~ok THEN "raised"
             ELSE IF ~execs.inv[i].fetch THEN "None"
             ELSE IF execs.inv[i].select THEN "fetchall" ELSE "fetchone"]
  /\ UNCHANGED notExecs

\* (The cursor and the connection are closed at the end of the try block
\* instead of in a finally clause.)
execute_query_Finally_AfterSuccess(i) ==
  /\ execs.inv[i].pc = "finally"
  /\ LET e == execs.inv[i]
         closing == e.outcome # "raised"
     IN execs' = [execs EXCEPT
          !.open_cursors = IF closing /\ ~IsNone(e.cursor) THEN @ \ {Val(e.cursor)} ELSE @,
          !.open_connections =
             IF closing /\ ~IsNone(e.connection) THEN @ \ {Val(e.connection)} ELSE @,
          !.inv[i].pc = IF e.outcome = "raised" THEN "raised" ELSE "returned"]
  /\ UNCHANGED notExecs

\* Lines 81-85: finally: if cursor: cursor.close(); if connection:
\* connection.close(); then the return or the raise takes effect.
execute_query_Finally(i) ==
  /\ execs.inv[i].pc = "finally"
  /\ LET e == execs.inv[i]
     IN execs' = [execs EXCEPT
          !.open_cursors = IF ~IsNone(e.cursor) THEN @ \ {Val(e.cursor)} ELSE @,
          !.open_connections = IF ~IsNone(e.connection) THEN @ \ {Val(e.connection)} ELSE @,
          !.inv[i].pc = IF e.outcome = "raised" THEN "raised" ELSE "returned"]
  /\ UNCHANGED notExecs

Init ==
  /\ execs = [inv |-> [i \in Threads |-> NoExec], connects |-> 0,
              open_connections |-> {}, open_cursors |-> {}]
  /\ reqs = [r \in Slots |-> Idle]
  /\ devices = << >>
  /\ imu_sessions = << >>
  /\ imu_client_uploads = << >>
  /\ imu_session_files = << >>
  /\ imu_session_stats = << >>
  /\ blobs = {}
  /\ storage_ok = TRUE
  /\ users = {}
  /\ sessions = {}
  /\ session_starts = << >>
  /\ now = 0
  /\ hist = [creates |-> [k \in CreateKeys |-> NoCreates],
             finals |-> [s \in 1 .. MaxImuSessions |-> None]]

CreateStep(r) ==
  \/ CreateImuSession_DeviceSelect(r)
  \/ CreateImuSession_DeviceUpdate(r)
  \/ CreateImuSession_DeviceInsert(r)
  \/ CreateImuSession_DeviceReselect(r)
  \/ CreateImuSession_LedgerSelect(r)
  \/ CreateImuSession_SessionInsert(r)
  \/ CreateImuSession_SessionReselect(r)
  \/ CreateImuSession_LedgerInsert(r)
  \/ CreateImuSession_Respond(r)

FinalizeStep(r) ==
  \/ FinalizeImuManifest_SessionSelect(r)
  \/ FinalizeImuManifest_Replay(r)
  \/ FinalizeImuManifest_VerifyBlobs(r)
  \/ FinalizeImuManifest_FileSelect(r)
  \/ FinalizeImuManifest_FileInsert(r)
  \/ FinalizeImuManifest_Update(r)
  \/ FinalizeImuManifest_StatsSelect(r)
  \/ FinalizeImuManifest_StatsInsert(r)

\* The calls clients make.  Every call one at a time; where calls overlap,
\* the well-formed ones of user u1 and one call of user u2.
CreateCalls == [user : Users, body : CreateBodies]

ConcCreateCalls ==
  [user : {"u1"}, body : {b \in ValidCreateBodies : b.start_time_utc = Some("t1")}]
    \cup { [user |-> "u2", body |-> BaseCreateBody],
           [user |-> "u1", body |-> [BaseCreateBody EXCEPT !.client_upload_id = None]] }

FinalizeCallsOf == [user : Users, call : FinalizeCalls]

ConcFinalizeCalls ==
  [user : {"u1"},
   call : { [route |-> Some(1), body |-> b] :
              b \in [end_time_utc : {Some("t2")},
                     files : { << >>, << FileA >>, << FileA, [FileB EXCEPT !.purpose = "video"] >> },
                     rate_stats : {None, Some(CompleteStats)}] }]
    \cup { [user |-> "u2", call |-> [route |-> Some(1), body |-> BaseFinalizeBody]] }

GetStep(r) ==
  \/ GetImuSession_SessionSelect(r)
  \/ GetImuSession_FilesSelect(r)
  \/ GetImuSession_ListCount(r)
  \/ GetImuSession_ListSelect(r)

GetStart(r) ==
  \E u \in Users, id \in {None, Some(1), Some(MaxFinalizable + 1)} : GetImuSession_Start(r, u, id)

CreateStart(r, calls, max) ==
  \E c \in calls :
     CreateRoom(c.user, c.body, max) /\ CreateImuSession_Start(r, c.user, c.body)

FinalizeStart(r, calls) ==
  \E c \in calls : FinalizeImuManifest_Start(r, c.user, c.call.route, c.call.body)

Upload == \E sid \in 1 .. MaxImuSessions : UploadBlobs(sid)

\* Session-create calls alone, one at a time: a call begins only when no
\* other is in flight.
NextCreateSeq ==
  \/ NoneInFlight /\ CreateStart(1, CreateCalls, MaxImuSessions)
  \/ CreateStep(1)

SpecCreateSeq == Init /\ [][NextCreateSeq]_vars

\* Session-create calls alone, any NSlots of them in flight together.
NextCreate ==
  \E r \in Slots :
    \/ CreateStart(r, ConcCreateCalls, MaxImuSessions)
    \/ CreateStep(r)

SpecCreate == Init /\ [][NextCreate]_vars

\* Session-create calls one at a time, while the storage configuration comes
\* and goes and the storage service may fail a call.
NextCreateFault ==
  \/ NoneInFlight /\ CreateStart(1, CreateCalls, MaxImuSessions)
  \/ CreateStep(1)
  \/ CreateImuSession_MintFails(1)
  \/ NoneInFlight /\ \E ok \in BOOLEAN : ConfigureStorage(ok)

SpecCreateFault == Init /\ [][NextCreateFault]_vars

\* Session-create calls one at a time, while the datastore may fail a call
\* between its session row and its ledger row.
NextCreateDbFault ==
  \/ NoneInFlight /\ CreateStart(1, CreateCalls, MaxImuSessions)
  \/ CreateStep(1)
  \/ CreateImuSession_LedgerFails(1)

SpecCreateDbFault == Init /\ [][NextCreateDbFault]_vars

\* The payloads of a client that repeats one client_upload_id with other
\* device fields, start time, rate and frame.
ReplayCreateCalls ==
  [user : Users,
   body : { BaseCreateBody,
            [BaseCreateBody EXCEPT !.platform = Some("android"),
                                   !.start_time_utc = Some("t2"),
                                   !.nominal_hz = 100,
                                   !.coord_frame = "world"],
            [BaseCreateBody EXCEPT !.platform = Some("android"), !.hw_id = "h2"],
            [BaseCreateBody EXCEPT !.client_upload_id = Some("c2"),
                                   !.start_time_utc = Some("t2")] }]

\* Session-create calls that repeat a client_upload_id, one at a time.
NextCreateReplay ==
  \/ NoneInFlight /\ CreateStart(1, ReplayCreateCalls, MaxImuSessions)
  \/ CreateStep(1)

SpecCreateReplay == Init /\ [][NextCreateReplay]_vars

\* Payloads with any combination of faults in the validated fields.
FaultyCreateCalls ==
  [user : Users,
   body : [client_upload_id : {None, Some("c1")},
           platform : {None, Some("windows"), Some("ios")},
           hw_id : {"h1"},
           start_time_utc : {None, Some("yesterday"), Some("t1")},
           nominal_hz : {50},
           coord_frame : {"body", "device"}]]

\* Session-create calls with well-formed and malformed payloads, one at a time.
NextCreateValidate ==
  \/ NoneInFlight /\ CreateStart(1, FaultyCreateCalls, MaxImuSessions)
  \/ CreateStep(1)

SpecCreateValidate == Init /\ [][NextCreateValidate]_vars

\* Create, upload, finalize and get, one call at a time.
NextSeq ==
  \/ NoneInFlight /\ CreateStart(1, CreateCalls, MaxFinalizable)
  \/ CreateStep(1)
  \/ NoneInFlight /\ FinalizeStart(1, FinalizeCallsOf)
  \/ FinalizeStep(1)
  \/ NoneInFlight /\ GetStart(1)
  \/ GetStep(1)
  \/ NoneInFlight /\ Upload

SpecSeq == Init /\ [][NextSeq]_vars

\* Create, upload, finalize and get, any NSlots calls in flight together.
Next ==
  \/ \E r \in Slots :
       \/ CreateStart(r, ConcCreateCalls, MaxFinalizable)
       \/ CreateStep(r)
       \/ FinalizeStart(r, ConcFinalizeCalls)
       \/ FinalizeStep(r)
       \/ GetStart(r)
       \/ GetStep(r)
  \/ Upload

Spec == Init /\ [][Next]_vars
\* The callers' headers when every caller is signed in.
SignedIn == {Bearer(ValidToken(u)) : u \in Users}

CreateUserStep(r) ==
  \/ CreateUser_Select(r)
  \/ CreateUser_Existing(r)
  \/ CreateUser_Insert(r)
  \/ CreateUser_Reselect(r)

CreateSessionStep(r) ==
  \/ CreateSession_Insert(r)
  \/ CreateSession_UpdateTotal(r)
  \/ CreateSession_CountYesterday(r)
  \/ CreateSession_CountToday(r)
  \/ CreateSession_UpdateStreak(r)
  \/ CreateSession_Respond(r)

MaxTapDays == 2

TapUserBody == Some([name |-> Some("n"), email |-> Some("e1"), nickname |-> None])
TapUserBody2 == Some([name |-> Some("n"), email |-> Some("e2"), nickname |-> None])

\* Who signs up, and how.
TapSignups == { << "u1", TapUserBody >>, << "u2", TapUserBody2 >> }

\* Users sign up and log tap sessions over several days, one call at a time;
\* time passes between calls.
NextTapSeq ==
  \/ NoneInFlight /\ \E c \in TapSignups : CreateUser_Start(1, Bearer(ValidToken(c[1])), c[2])
  \/ CreateUserStep(1)
  \/ NoneInFlight /\ Cardinality(sessions) < MaxTapSessions
                  /\ \E h \in SignedIn, b \in SessionBodies : CreateSession_Start(1, h, b)
  \/ CreateSessionStep(1)
  \/ NoneInFlight /\ Advance(1, MaxTapDays * TicksPerDay)

SpecTapSeq == Init /\ [][NextTapSeq]_vars

\* u1 signs up; u1's tap sessions arrive in any slot while others are in
\* flight; time passes between calls.
NextTapRace ==
  \/ NoneInFlight /\ CreateUser_Start(1, Bearer(ValidToken("u1")), TapUserBody)
  \/ CreateUserStep(1)
  \/ /\ Cardinality(sessions) < MaxTapSessions
     /\ \E r \in Slots, b \in SessionBodies :
           CreateSession_Start(r, Bearer(ValidToken("u1")), b)
  \/ \E r \in Slots : CreateSessionStep(r)
  \/ NoneInFlight /\ Advance(1, MaxTapDays * TicksPerDay)

SpecTapRace == Init /\ [][NextTapRace]_vars

UpdateNicknameStep(r) ==
  \/ UpdateNickname_UserSelect(r)
  \/ UpdateNickname_TakenSelect(r)
  \/ UpdateNickname_Update(r)
  \/ UpdateNickname_Reselect(r)

UpdateProfileStep(r) ==
  \/ UpdateProfile_UserSelect(r)
  \/ UpdateProfile_TakenSelect(r)
  \/ UpdateProfile_Update(r)
  \/ UpdateProfile_Reselect(r)

\* The instants at which calls arrive: within the first day, and from a day
\* before the cooldown's end to a day after it.
NickInstants ==
  (0 .. TicksPerDay) \cup ((CooldownDays - 1) * TicksPerDay .. (CooldownDays + 1) * TicksPerDay)

\* Who signs up, and how: u1 with or without a nickname, u2 with another.
NickSignups ==
  { << "u1", [name |-> Some("n"), email |-> Some("e1"), nickname |-> None] >>,
    << "u1", [name |-> Some("n"), email |-> Some("e1"), nickname |-> Some("nickA")] >>,
    << "u2", [name |-> Some("n"), email |-> Some("e2"), nickname |-> Some("nickB")] >> }

\* Users sign up and u1 changes nickname and profile, one call at a time;
\* time passes between calls.
NextNickSeq ==
  \/ NoneInFlight /\ \E c \in NickSignups :
                        CreateUser_Start(1, Bearer(ValidToken(c[1])), Some(c[2]))
  \/ CreateUserStep(1)
  \/ NoneInFlight /\ \E b \in NicknameBodies :
                        UpdateNickname_Start(1, Bearer(ValidToken("u1")), b)
  \/ UpdateNicknameStep(1)
  \/ NoneInFlight /\ \E b \in ProfileBodies :
                        UpdateProfile_Start(1, Bearer(ValidToken("u1")), b)
  \/ UpdateProfileStep(1)
  \/ NoneInFlight /\ \E t \in NickInstants : t > now /\ Advance(t - now, t)

SpecNickSeq == Init /\ [][NextNickSeq]_vars

\* The nickname changes u1 asks for when calls overlap.
RaceNicknameBodies == { Some([nickname |-> Some(n)]) : n \in {"nickA", "nickB"} }

RaceProfileBodies ==
  { Some([NoProfile EXCEPT !.nickname = Some("nickB")]),
    Some([NoProfile EXCEPT !.kendoRank = Some("2dan")]) }

\* The instants at which racing calls arrive: the day before the cooldown of
\* a nickname set at time 0 ends, and the day it ends.
RaceInstants == { (CooldownDays - 1) * TicksPerDay, CooldownDays * TicksPerDay }

\* u1 signs up with a nickname; u1's nickname and profile updates arrive in
\* any slot while others are in flight; time passes between calls.
NextNickRace ==
  \/ NoneInFlight /\ CreateUser_Start(1, Bearer(ValidToken("u1")),
                         Some([name |-> Some("n"), email |-> Some("e1"),
                               nickname |-> Some("nickA")]))
  \/ CreateUserStep(1)
  \/ \E r \in Slots, b \in RaceNicknameBodies :
        UpdateNickname_Start(r, Bearer(ValidToken("u1")), b)
  \/ \E r \in Slots : UpdateNicknameStep(r)
  \/ \E r \in Slots, b \in RaceProfileBodies :
        UpdateProfile_Start(r, Bearer(ValidToken("u1")), b)
  \/ \E r \in Slots : UpdateProfileStep(r)
  \/ NoneInFlight /\ \E t \in RaceInstants : t > now /\ Advance(t - now, t)

SpecNickRace == Init /\ [][NextNickRace]_vars

\* execute_query invocations, overlapping as the handlers' threads do.
NextQuery ==
  \/ \E i \in Threads, fetch \in BOOLEAN, select \in BOOLEAN : execute_query_Call(i, fetch, select)
  \/ \E i \in Threads, ok \in BOOLEAN : execute_query_Connect(i, ok)
  \/ \E i \in Threads, ok \in BOOLEAN : execute_query_Execute(i, ok)
  \/ \E i \in Threads : execute_query_Finally(i)

SpecQuery == Init /\ [][NextQuery]_vars

UpdateUserIdStep(r) ==
  \/ UpdateUserId_Users(r)
  \/ UpdateUserId_Sessions(r)
  \/ UpdateUserId_SessionStarts(r)

MaxAuthSessions == 2

AuthSessionBodies ==
  { None, Some([id |-> Some("s1"), tapCount |-> Some(2), duration |-> Some(1)]),
    Some([id |-> Some("s2"), tapCount |-> Some(2), duration |-> Some(1)]) }

\* Calls with every kind of Authorization header, one at a time.
NextAuthSeq ==
  \/ NoneInFlight /\ \E h \in Headers, b \in {TapUserBody, TapUserBody2} :
                        CreateUser_Start(1, h, b)
  \/ CreateUserStep(1)
  \/ NoneInFlight /\ Cardinality(sessions) < MaxAuthSessions
                  /\ \E h \in Headers, b \in AuthSessionBodies : CreateSession_Start(1, h, b)
  \/ CreateSessionStep(1)
  \/ NoneInFlight /\ \E h \in Headers : LogSessionStart_Start(1, h)
  \/ LogSessionStart_Insert(1)
  \/ NoneInFlight /\ \E h \in {NoHeader, Bearer(ValidToken("u1"))},
                         t \in TypeParams, l \in LimitParams :
                        GetLeaderboard_Start(1, h, t, l)
  \/ GetLeaderboard_Query(1)
  \/ NoneInFlight /\ \E h \in {NoHeader, Bearer(ValidToken("u1"))}, b \in UserIdBodies :
                        UpdateUserId_Start(1, h, b)
  \/ UpdateUserIdStep(1)

SpecAuthSeq == Init /\ [][NextAuthSeq]_vars

\* Users sign up, again and again with any payload, and log tap sessions,
\* one call at a time.
NextUserSeq ==
  \/ NoneInFlight /\ \E h \in SignedIn, b \in UserBodies : CreateUser_Start(1, h, Some(b))
  \/ CreateUserStep(1)
  \/ NoneInFlight /\ Cardinality(sessions) < MaxAuthSessions
                  /\ \E h \in SignedIn, b \in AuthSessionBodies : CreateSession_Start(1, h, b)
  \/ CreateSessionStep(1)

SpecUserSeq == Init /\ [][NextUserSeq]_vars

(***************************************************************************)
(* Properties                                                              *)
(***************************************************************************)
DoneCalls(kind) == {r \in Slots : reqs[r].pc = "done" /\ reqs[r].kind = kind}

\* C1: a well-formed session-create call is answered 201 or 200; the first
\* answered call of a (user, client_upload_id) gets 201, every later one gets
\* 200 with the imu_session_id the first returned.
C1_CreateTwiceSameSession ==
  \A r \in DoneCalls("CreateImuSession") :
     reqs[r].ghost.well_formed =>
       /\ reqs[r].resp.status \in {200, 201}
       /\ reqs[r].resp.nth = 1 => reqs[r].resp.status = 201
       /\ reqs[r].resp.nth > 1 =>
            /\ reqs[r].resp.status = 200
            /\ reqs[r].resp.imu_session_id =
                 hist.creates[<< reqs[r].user, Val(reqs[r].key) >>].first_sid

\* A second call with the same client_upload_id has been answered.
C1_Witness ==
  \E r \in DoneCalls("CreateImuSession") :
     /\ reqs[r].resp.status = 200
     /\ reqs[r].resp.nth = 2

SessionsMadeFor(user_id, client_upload_id) ==
  {s \in 1 .. Len(imu_sessions) :
     imu_sessions[s].user_id = user_id /\ imu_sessions[s].by_upload = client_upload_id}

\* C2: in every reachable state at most one imu_sessions row exists per
\* (user, client_upload_id).
C2_OneSessionPerUpload ==
  \A k \in CreateKeys : Cardinality(SessionsMadeFor(k[1], k[2])) <= 1

\* The totals of the file rows of a session, as plain sums (a row without a
\* sample count adds nothing).
RowTotals(sid) ==
  [total_files |-> Cardinality(FileRowsOf(sid)),
   total_bytes |-> Some(SumOver(FileRowsOf(sid), "bytes_size")),
   total_samples |-> Some(SumOver(FileRowsOf(sid), "num_samples"))]

\* The owner's well-formed finalize calls on a session that was finalized
\* when the call began.
ReplayedFinalizes ==
  {r \in DoneCalls("FinalizeImuManifest") :
     /\ reqs[r].ghost.was_finalized
     /\ reqs[r].ghost.well_formed
     /\ imu_sessions[Val(reqs[r].key)].user_id = reqs[r].user}

\* C3: a finalize call on an already finalized session answers 200 with
\* total_files, total_bytes and total_samples equal to the count and the sums
\* over the session's file rows, and writes no row.
C3_ReplayTotalsNoWrites ==
  \A r \in ReplayedFinalizes :
     /\ reqs[r].resp.status = 200
     /\ reqs[r].resp.total_files = RowTotals(Val(reqs[r].key)).total_files
     /\ reqs[r].resp.total_bytes = RowTotals(Val(reqs[r].key)).total_bytes
     /\ reqs[r].resp.total_samples = RowTotals(Val(reqs[r].key)).total_samples
     /\ reqs[r].ghost.writes = 0

\* C4: a finalize call after the first successful one answers 200 with the
\* totals the first one answered, and the session has as many file rows as
\* it had after the first.
C4_SecondFinalizeSameTotals ==
  \A r \in ReplayedFinalizes :
     LET first == Val(hist.finals[Val(reqs[r].key)])
     IN /\ reqs[r].resp.status = 200
        /\ reqs[r].resp.total_files = first.total_files
        /\ reqs[r].resp.total_bytes = first.total_bytes
        /\ reqs[r].resp.total_samples = first.total_samples
        /\ Cardinality(FileRowsOf(Val(reqs[r].key))) = first.file_rows

\* C10: once a session's end_time_utc is set, no step makes it NULL again.
C10_EndTimeNeverCleared ==
  [][\A s \in 1 .. Len(imu_sessions) :
       ~IsNone(imu_sessions[s].end_time_utc) =>
          /\ s \in 1 .. Len(imu_sessions')
          /\ ~IsNone(imu_sessions'[s].end_time_utc)]_vars

\* Two finalize calls of one session both ran their UPDATE (the second on a
\* session the first had finalized), and the session is still finalized.
C10_Witness ==
  /\ \A r \in Slots :
        /\ reqs[r].pc = "done"
        /\ reqs[r].kind = "FinalizeImuManifest"
        /\ reqs[r].resp.status = 200
        /\ ~reqs[r].resp.replay
        /\ reqs[r].key = Some(1)
  /\ ~IsNone(imu_sessions[1].end_time_utc)
\* C8: after a successful tap-session insert the caller's streak is 1 when
\* the session is the caller's first of the calendar day and the caller has
\* no session on the preceding day, one more than before when it is the
\* first of the day and a session exists on the preceding day, and
\* unchanged when it is not the first of the day.
C8_StreakRule ==
  \A r \in DoneCalls("CreateSession") :
     reqs[r].resp.status = 201 =>
        LET g == reqs[r].ghost
            streak == UserRow(reqs[r].user).streak
        IN /\ g.first_of_day /\ ~g.prior_day => streak = 1
           /\ g.first_of_day /\ g.prior_day => streak = g.streak_before + 1
           /\ ~g.first_of_day => streak = g.streak_before
           /\ Val(reqs[r].resp.user).streak = streak

\* A streak was extended beyond 1, one was reset to 1 after a gap, and a
\* second session of a day left one alone: here the extension.
C8_Witness ==
  \E r \in DoneCalls("CreateSession") :
     /\ reqs[r].resp.status = 201
     /\ reqs[r].ghost.first_of_day
     /\ reqs[r].ghost.prior_day
     /\ reqs[r].ghost.streak_before >= 1
     /\ UserRow(reqs[r].user).streak = 2
\* The answered nickname-change attempts of a user with an earlier change:
\* nickname updates and profile updates that carry a nickname.
NicknameAttempts ==
  {r \in DoneCalls("UpdateNickname") \cup DoneCalls("UpdateProfile") :
     /\ reqs[r].resp.status # 401
     /\ ~IsNone(reqs[r].ghost.nickname)
     /\ reqs[r].ghost.known
     /\ ~IsNone(reqs[r].ghost.last_changed)}

AttemptDays(r) == DaysSince(Val(reqs[r].ghost.last_changed), reqs[r].ghost.at)

NicknameUntouched(r) ==
  /\ UserRow(reqs[r].user).nickname = reqs[r].ghost.stored
  /\ UserRow(reqs[r].user).nickname_last_changed = reqs[r].ghost.last_changed

NicknameStored(r) ==
  /\ reqs[r].resp.status = 200
  /\ UserRow(reqs[r].user).nickname = reqs[r].ghost.nickname
  /\ UserRow(reqs[r].user).nickname_last_changed = Some(reqs[r].ghost.at)

AttemptSized(r) ==
  /\ reqs[r].ghost.nickname # Some("")
  /\ NicknameLengthOk(Val(reqs[r].ghost.nickname))

WrappedCalls ==
  DoneCalls("CreateUser") \cup DoneCalls("CreateSession") \cup DoneCalls("LogSessionStart")
    \cup DoneCalls("UpdateNickname") \cup DoneCalls("UpdateProfile")

\* C5: a call whose bearer token does not verify (signature, audience or
\* issuer) is answered 401, and its handler runs no statement, so writes
\* nothing.
C5_UnverifiedTokenRejected ==
  \A r \in WrappedCalls :
     reqs[r].ghost.header.scheme = "bearer" /\ ~Verifies(reqs[r].ghost.header) =>
        /\ reqs[r].resp.status = 401
        /\ reqs[r].ghost.db = 0
        /\ reqs[r].ghost.writes = 0

\* C6: a call without an Authorization bearer header, to any endpoint but
\* the no-auth user creation, is answered 401 and runs no statement.
C6_NoHeaderRefused ==
  \A r \in WrappedCalls \cup DoneCalls("GetLeaderboard") \cup DoneCalls("UpdateUserId") :
     reqs[r].ghost.header.scheme # "bearer" =>
        /\ reqs[r].resp.status = 401
        /\ reqs[r].ghost.db = 0

\* C9: the leaderboard query runs with a row limit in 1..100: a caller's
\* limit of 0 or less runs as 1, one above 100 runs as 100.
C9_LimitClamped ==
  \A r \in DoneCalls("GetLeaderboard") :
     /\ ~IsNone(reqs[r].ghost.sql_limit) => Val(reqs[r].ghost.sql_limit) \in 1 .. 100
     /\ reqs[r].resp.status # 400 /\ ~IsNone(reqs[r].key) /\ Val(reqs[r].key).numeric =>
           /\ Val(reqs[r].key).value <= 0 => reqs[r].ghost.sql_limit = Some(1)
           /\ Val(reqs[r].key).value > 100 => reqs[r].ghost.sql_limit = Some(100)

\* C11: a session is finalized once: of the finalize calls of one session
\* answered 200, at most one wrote end_time_utc and actual_mean_hz; every
\* other one took the replay path and wrote nothing.
C11_FinalizedOnce ==
  \A r1, r2 \in DoneCalls("FinalizeImuManifest") :
     /\ r1 # r2
     /\ reqs[r1].key = reqs[r2].key
     /\ reqs[r1].resp.status = 200
     /\ reqs[r2].resp.status = 200
     => \E r \in {r1, r2} : reqs[r].resp.replay /\ reqs[r].ghost.writes = 0

RECURSIVE ListBytes(_)
\* The sum of bytes_size over a file list (an entry without one adds 0).
ListBytes(files) ==
  IF files = << >> THEN 0 ELSE BytesOf(Head(files)) + ListBytes(Tail(files))

RECURSIVE ListSamples(_)
\* The sum of num_samples over a file list (an entry without one adds 0).
ListSamples(files) ==
  IF files = << >> THEN 0 ELSE SamplesOf(Head(files)) + ListSamples(Tail(files))

\* C12: a finalize call answered 200 from the first-finalize path reports
\* total_files = the number of entries of the call's file list, total_bytes =
\* the sum of their bytes_size and total_samples = the sum of their
\* num_samples, whatever rows the session has.
C12_TotalsFromInput ==
  [][\A r \in Slots :
       /\ reqs[r].kind = "FinalizeImuManifest"
       /\ reqs[r].pc # "done"
       /\ reqs'[r].pc = "done"
       /\ reqs'[r].resp.status = 200
       /\ ~reqs'[r].resp.replay
       => /\ reqs'[r].resp.total_files = Len(reqs[r].body.files)
          /\ reqs'[r].resp.total_bytes = Some(ListBytes(reqs[r].body.files))
          /\ reqs'[r].resp.total_samples = Some(ListSamples(reqs[r].body.files))]_vars

\* A first finalize whose list names one file twice was answered with the
\* totals of the list, two files and twice the size, over a single stored row.
C12_Witness ==
  \E r \in DoneCalls("FinalizeImuManifest") :
     /\ reqs[r].resp.status = 200
     /\ ~reqs[r].resp.replay
     /\ reqs[r].resp.total_files = 2
     /\ reqs[r].resp.total_bytes = Some(2 * BytesOf(FileA))
     /\ Cardinality(FileRowsOf(Val(reqs[r].key))) = 1

\* The nickname a call in flight is about to look up or store, if any.
NicknameAsked(r) ==
  IF reqs[r].pc \in {"cu_insert", "un_taken", "up_taken"} THEN reqs[r].body.nickname ELSE None

\* C13: no two users hold the same non-null nickname, and a call that comes
\* to take a nickname another user holds (a nickname update, a profile update,
\* or the creation of a user with a nickname) is answered 409 and leaves the
\* users' rows as they were.
C13_NicknameTakenIs409 ==
  [][/\ \A u1, u2 \in users' :
          u1.id # u2.id /\ ~IsNone(u1.nickname) => u1.nickname # u2.nickname
     /\ \A r \in Slots :
          /\ ~IsNone(NicknameAsked(r))
          /\ NicknameTaken(Val(NicknameAsked(r)), reqs[r].user)
          /\ reqs'[r] # reqs[r]
          => /\ reqs'[r].pc = "done"
             /\ reqs'[r].resp.status = 409
             /\ users' = users]_vars

\* The answered create-user calls that carried a token and the required fields.
CreateUserCalls ==
  {r \in DoneCalls("CreateUser") : reqs[r].resp.status \notin {400, 401}}

\* The call inserted the subject's row, with streak 0 and total_count 0, and
\* answered 201 with it.
UserCreated(r) ==
  /\ reqs[r].resp.status = 201
  /\ reqs[r].ghost.writes = 1
  /\ UserExists(reqs[r].user)
  /\ UserRow(reqs[r].user).streak = 0
  /\ UserRow(reqs[r].user).total_count = 0
  /\ reqs[r].resp.user = Some(UserRow(reqs[r].user))

\* The call answered 200 with the subject's row, wrote nothing, and the row
\* is the one the subject had.
UserReturned(r) ==
  /\ reqs[r].resp.status = 200
  /\ reqs[r].ghost.writes = 0
  /\ reqs[r].resp.user = reqs[r].ghost.before
  /\ UserResponse(reqs[r].user) = reqs[r].ghost.before

SessionCalls ==
  {r \in Slots : /\ InFlight(r)
                 /\ reqs[r].kind \in {"FinalizeImuManifest", "GetImuSession"}
                 /\ ~IsNone(reqs[r].key)}

SessionMissing(r) == reqs[r].sid \notin 1 .. Len(imu_sessions)

SessionForeign(r) ==
  ~SessionMissing(r) /\ imu_sessions[reqs[r].sid].user_id # reqs[r].user

\* C15: a finalize or get-session call that loads a session id without a row
\* is answered 404, one that loads another user's session is answered 403,
\* and that step changes no table and no blob and ends the call with nothing
\* written; no call is ever past the load (where files are read and rows
\* written) on a session that is not the caller's.
C15_ForeignSessionRefused ==
  [][/\ \A r \in SessionCalls :
          /\ reqs[r].pc \in {"f_session_select", "g_session_select"}
          /\ reqs'[r] # reqs[r]
          /\ SessionMissing(r) \/ SessionForeign(r)
          => /\ reqs'[r].pc = "done"
             /\ reqs'[r].resp.status = IF SessionMissing(r) THEN 404 ELSE 403
             /\ reqs'[r].ghost.writes = 0
             /\ dbImu' = dbImu
             /\ blobs' = blobs
     /\ \A r \in Slots :
          /\ reqs'[r].pc \notin {"idle", "done", "f_session_select", "g_session_select"}
          /\ reqs'[r].kind \in {"FinalizeImuManifest", "GetImuSession"}
          /\ ~IsNone(reqs'[r].key)
          => /\ reqs'[r].sid \in 1 .. Len(imu_sessions')
             /\ imu_sessions'[reqs'[r].sid].user_id = reqs'[r].user]_vars

\* A finalize call and a get call on another user's session were both
\* answered 403.
C15_Witness ==
  /\ \E r \in DoneCalls("FinalizeImuManifest") :
        /\ reqs[r].resp.status = 403
        /\ imu_sessions[Val(reqs[r].key)].user_id # reqs[r].user
  /\ \E r \in DoneCalls("GetImuSession") :
        /\ reqs[r].resp.status = 403
        /\ imu_sessions[Val(reqs[r].key)].user_id # reqs[r].user

\* The session the ledger holds for a (user, client_upload_id), if any.
LedgerSessions(user_id, client_upload_id) ==
  {imu_client_uploads[k].imu_session_id : k \in LedgerMatches(user_id, client_upload_id)}

\* C16: a session-create call answered 500 at the credential leaves its
\* device, session and ledger rows in place; a later call with the same
\* client_upload_id that is answered (storage working) gets 200 with the
\* session id of the failed call, and (user, client_upload_id) has one session.
C16_MintFailureThenRetry ==
  \A r \in DoneCalls("CreateImuSession") :
     LET k == << reqs[r].user, Val(reqs[r].key) >>
         failed == hist.creates[k].failed
     IN /\ reqs[r].resp.status = 500 =>
             /\ ~IsNone(failed)
             /\ LedgerSessions(k[1], k[2]) = {Val(failed)}
             /\ imu_sessions[Val(failed)].user_id = k[1]
             /\ imu_sessions[Val(failed)].device_id \in 1 .. Len(devices)
             /\ devices[imu_sessions[Val(failed)].device_id].user_id = k[1]
        /\ reqs[r].resp.status \in {200, 201} /\ ~IsNone(failed) =>
             /\ reqs[r].resp.status = 200
             /\ reqs[r].resp.imu_session_id = Val(failed)
             /\ SessionsMadeFor(k[1], k[2]) = {Val(failed)}

\* The first call of a client_upload_id failed at the credential and the
\* retry was answered: no call had been answered before it.
C16_Witness ==
  \E r \in DoneCalls("CreateImuSession") :
     /\ reqs[r].resp.status = 200
     /\ reqs[r].resp.nth = 1
     /\ ~IsNone(hist.creates[<< reqs[r].user, Val(reqs[r].key) >>].failed)
     /\ storage_ok

\* C17: in every reachable state there is at most one devices row per
\* (user_id, hw_id); a step that changes devices either changes only the
\* descriptive fields of existing rows or inserts exactly one row.
C17_OneDevicePerHwId ==
  [][/\ \A d1, d2 \in 1 .. Len(devices') :
          /\ devices'[d1].user_id = devices'[d2].user_id
          /\ devices'[d1].hw_id = devices'[d2].hw_id
          => d1 = d2
     /\ Len(devices') \in {Len(devices), Len(devices) + 1}
     /\ \A d \in 1 .. Len(devices) :
          /\ devices'[d].user_id = devices[d].user_id
          /\ devices'[d].hw_id = devices[d].hw_id]_vars

\* C18: there is never more than one imu_session_files row per (session,
\* purpose, storage path); the rows there are stay as they are, and a finalize
\* call that comes to a file already registered inserts nothing for it.
C18_OneRowPerFile ==
  [][/\ \A k1, k2 \in 1 .. Len(imu_session_files') :
          /\ imu_session_files'[k1].imu_session_id = imu_session_files'[k2].imu_session_id
          /\ imu_session_files'[k1].purpose = imu_session_files'[k2].purpose
          /\ imu_session_files'[k1].storage_url = imu_session_files'[k2].storage_url
          => k1 = k2
     /\ \A k \in 1 .. Len(imu_session_files) :
          /\ k \in 1 .. Len(imu_session_files')
          /\ imu_session_files'[k] = imu_session_files[k]]_vars

StatsRowsOf(sid) ==
  {k \in 1 .. Len(imu_session_stats) : imu_session_stats[k].imu_session_id = sid}

\* C19: each session has at most one imu_session_stats row in every
\* reachable state; a row is inserted only by a finalize call whose rate_stats
\* has samples_total, duration_ms and mean_hz, and only for a session that
\* has no stats row.
C19_OneStatsRow ==
  [][/\ \A k1, k2 \in 1 .. Len(imu_session_stats') :
          imu_session_stats'[k1].imu_session_id = imu_session_stats'[k2].imu_session_id
          => k1 = k2
     /\ imu_session_stats' # imu_session_stats =>
          \E r \in Slots :
             /\ reqs[r].kind = "FinalizeImuManifest"
             /\ InFlight(r)
             /\ StatsComplete(reqs[r].body.rate_stats)
             /\ StatsRowsOf(reqs[r].sid) = {}
             /\ imu_session_stats' =
                  Append(imu_session_stats,
                         [imu_session_id |-> reqs[r].sid,
                          mean_hz |-> Val(Val(reqs[r].body.rate_stats).mean_hz)])]_vars

\* The calls about to answer a (user, client_upload_id) that an earlier call
\* was answered for.
ReplayedCreates ==
  {r \in Slots : /\ reqs[r].kind = "CreateImuSession"
                 /\ reqs[r].pc = "c_sas"
                 /\ hist.creates[CreateKey(r)].n >= 1}

\* C20: a session-create call for a (user, client_upload_id) already answered
\* writes one row, the devices row of the payload's (user, hw_id), which then
\* holds the payload's platform; it inserts no imu_sessions and no ledger
\* row, and answers 200 with the id, start time, nominal rate and coordinate
\* frame of the stored session.
C20_ReplayReturnsStored ==
  [][\A r \in ReplayedCreates :
       reqs'[r].pc = "done" =>
         LET sid == hist.creates[CreateKey(r)].first_sid
             d == reqs[r].loc.device_id
         IN /\ reqs'[r].resp.status = 200
            /\ reqs'[r].resp.imu_session_id = sid
            /\ reqs'[r].resp.start_time_utc = imu_sessions[sid].start_time_utc
            /\ reqs'[r].resp.nominal_hz = imu_sessions[sid].nominal_hz
            /\ reqs'[r].resp.coord_frame = imu_sessions[sid].coord_frame
            /\ reqs'[r].ghost.writes = 1
            /\ SessionsMadeFor(reqs[r].user, Val(reqs[r].key)) = {sid}
            /\ LedgerSessions(reqs[r].user, Val(reqs[r].key)) = {sid}
            /\ Cardinality(LedgerMatches(reqs[r].user, Val(reqs[r].key))) = 1
            /\ devices[d].user_id = reqs[r].user
            /\ devices[d].hw_id = reqs[r].body.hw_id
            /\ devices[d].platform = Val(reqs[r].body.platform)]_vars

\* A replay whose payload differs from the stored session in start time,
\* rate and frame has refreshed the platform of the session's device and is
\* about to answer with the stored fields.
C20_Witness ==
  \E r \in ReplayedCreates :
     LET s == reqs[r].loc.session
         stored == imu_sessions[s.imu_session_id]
     IN /\ reqs[r].loc.status_code = 200
        /\ s.start_time_utc = stored.start_time_utc
        /\ s.start_time_utc # reqs[r].loc.start_dt
        /\ s.nominal_hz # reqs[r].body.nominal_hz
        /\ s.coord_frame # reqs[r].body.coord_frame
        /\ stored.device_id = reqs[r].loc.device_id
        /\ Len(devices) = 1
        /\ devices[stored.device_id].platform = "android"
        /\ reqs[r].body.platform = Some("android")
        /\ hist.creates[CreateKey(r)].n = 2

\* C21: every session-create response (201 or 200) hands out the path
\* users/{caller}/sessions/{returned imu_session_id}/, and every file row of
\* a session is registered under users/{owner}/sessions/{session}/{filename},
\* where finalize found the blob.
C21_PathHandedOutIsLookedUp ==
  /\ \A r \in DoneCalls("CreateImuSession") :
        reqs[r].resp.status \in {200, 201} =>
           reqs[r].resp.path = << "users", reqs[r].user, "sessions", reqs[r].resp.imu_session_id >>
  /\ \A k \in 1 .. Len(imu_session_files) :
        LET row == imu_session_files[k]
            sid == row.imu_session_id
        IN /\ Len(row.storage_url) = 5
           /\ SubSeq(row.storage_url, 1, 4) =
                << "users", imu_sessions[sid].user_id, "sessions", sid >>
           /\ \E b \in blobs : b.path = row.storage_url

\* A create call was answered with a path, the client uploaded under it, and
\* a finalize call registered a file under that path.
C21_Witness ==
  \E r1 \in DoneCalls("CreateImuSession"), r2 \in DoneCalls("FinalizeImuManifest") :
     /\ reqs[r1].resp.status = 201
     /\ reqs[r2].resp.status = 200
     /\ reqs[r2].key = Some(reqs[r1].resp.imu_session_id)
     /\ \E k \in FileRowsOf(reqs[r1].resp.imu_session_id) :
           /\ SubSeq(imu_session_files[k].storage_url, 1, 4) = reqs[r1].resp.path
           /\ \E b \in blobs : b.path = imu_session_files[k].storage_url

\* The message of the first check, in the handler's order, that a payload
\* with the faults F fails.
FirstFaultMessage(F) ==
  IF "client_upload_id" \in F THEN "client_upload_id is required"
  ELSE IF "platform" \in F THEN "device_info.platform is required"
  ELSE IF "start_time_utc" \in F THEN "start_time_utc is required"
  ELSE IF "platform_enum" \in F THEN "Invalid platform"
  ELSE IF "coord_frame" \in F THEN "coord_frame must be 'device' or 'world'"
  ELSE "Invalid start_time_utc format"

\* C22: a session-create call whose payload has faults is answered 400 with
\* the message of the first failing check in the order client_upload_id
\* present, platform present, start_time_utc present, platform in the enum,
\* coord_frame in the enum, start_time_utc parseable, and writes no row; a
\* payload without faults is not answered 400.
C22_FirstFailingCheckDecides ==
  \A r \in DoneCalls("CreateImuSession") :
     IF reqs[r].ghost.faults # {}
     THEN /\ reqs[r].resp.status = 400
          /\ reqs[r].resp.error = FirstFaultMessage(reqs[r].ghost.faults)
          /\ reqs[r].ghost.writes = 0
     ELSE reqs[r].resp.status # 400

\* A payload with a wrong platform, a wrong frame and no start time was
\* answered for the start time, after a session had been created, and the
\* tables hold that session's rows alone.
C22_Witness ==
  \E r \in DoneCalls("CreateImuSession") :
     /\ reqs[r].ghost.faults = {"start_time_utc", "platform_enum", "coord_frame"}
     /\ reqs[r].resp.error = "start_time_utc is required"
     /\ Len(imu_sessions) = 1
     /\ Len(devices) = 1
     /\ Len(imu_client_uploads) = 1

(***************************************************************************)
(* C23                                                                     *)
(***************************************************************************)
MissingBlobs == "Some files not found in blob storage"

\* The file names of `files`, in order, whose blob is not under `base`.
AbsentNames(base, files) ==
  LET names == [k \in 1 .. Len(files) |-> Val(files[k].filename)]
      Absent(n) == IsNone(BlobSize(base \o << n >>))
  IN SelectSeq(names, Absent)

\* C23: an absent blob does not end the scan of the file list, and a finalize
\* call that is refused for missing blobs has looked at every entry, answers
\* one 400 whose missing_files names every file of the request whose blob is
\* absent, has inserted no file row and has left the session's end_time NULL.
C23_MissingBlobsCollected ==
  [][\A r \in SessionCalls :
       /\ reqs[r].pc = "f_verify_blobs"
       /\ reqs'[r] # reqs[r]
       /\ reqs'[r].pc = "done"
       /\ reqs'[r].resp.error = MissingBlobs
       => LET files == reqs[r].body.files
              base == session_path(reqs[r].user, reqs[r].sid)
          IN /\ reqs'[r].resp.status = 400
             /\ reqs'[r].ghost.examined = Len(files)
             /\ reqs'[r].resp.missing_files = AbsentNames(base, files)
             /\ reqs'[r].resp.missing_files # << >>
             /\ reqs'[r].ghost.writes = 0
             /\ dbImu' = dbImu
             /\ IsNone(imu_sessions'[reqs[r].sid].end_time_utc)]_vars

\* A finalize call was refused for two missing blobs while a third file of the
\* same request had its blob in place.
C23_Witness ==
  \E r \in DOMAIN reqs :
    /\ reqs[r].kind = "FinalizeImuManifest"
    /\ reqs[r].pc = "done"
    /\ reqs[r].resp.status = 400
    /\ reqs[r].resp.error = MissingBlobs
    /\ reqs[r].resp.missing_files = << "c.bin", "c.bin" >>
    /\ reqs[r].ghost.examined = 3
    /\ reqs[r].ghost.writes = 0

(***************************************************************************)
(* C24                                                                     *)
(***************************************************************************)
SizeMismatch == "File size mismatch"

\* C24: a finalize call that is refused because a blob's size differs from
\* the claimed bytes_size has examined every entry of the file list before
\* it answers, not only the entries up to the first mismatching one.
C24_SizeMismatchScansAll ==
  [][\A r \in SessionCalls :
       /\ reqs[r].pc = "f_verify_blobs"
       /\ reqs'[r] # reqs[r]
       /\ reqs'[r].pc = "done"
       /\ reqs'[r].resp.error = SizeMismatch
       => reqs'[r].ghost.examined = Len(reqs[r].body.files)]_vars

(***************************************************************************)
(* C25                                                                     *)
(***************************************************************************)
\* The call in slot r runs the UPDATE that stores a nickname for its user.
StoresNickname(r) ==
  /\ reqs[r].pc \in {"un_update", "up_update"}
  /\ ~IsNone(reqs[r].body.nickname)
  /\ reqs'[r].pc \in {"un_reselect", "up_reselect"}

\* C25: whenever a nickname update or a profile update of a user stores a
\* nickname, the user's previous nickname change (the one at creation
\* included) lies at least 30 days back, however that user's nickname and
\* profile updates interleave.
C25_ChangesThirtyDaysApart ==
  [][\A r \in Slots :
       InFlight(r) /\ StoresNickname(r) /\ UserExists(reqs[r].user)
       => LET last_changed == UserRow(reqs[r].user).nickname_last_changed
          IN IsNone(last_changed) \/ DaysSince(Val(last_changed), now) >= CooldownDays]_vars

(***************************************************************************)
(* C26                                                                     *)
(***************************************************************************)
\* The connections and cursors held by invocations that have not returned.
HeldConnections ==
  {Val(execs.inv[i].connection) : i \in {j \in Threads : ~Returned(j) /\ ~IsNone(execs.inv[j].connection)}}

\* C26: every execute_query invocation opens a connection of its own, and
\* once an invocation has returned or raised (after a fetch, a write, a
\* failed connect or a failed statement) its cursor and connection are
\* closed; when no invocation is running, no connection and no cursor is open.
C26_ConnectionsClosed ==
  /\ \A i, j \in Threads :
        /\ i # j /\ ~Returned(i) /\ ~Returned(j)
        /\ ~IsNone(execs.inv[i].connection) /\ ~IsNone(execs.inv[j].connection)
        => execs.inv[i].connection # execs.inv[j].connection
  /\ \A i \in Threads :
        Returned(i) =>
          /\ IsNone(execs.inv[i].connection) \/ Val(execs.inv[i].connection) \notin execs.open_connections
          /\ IsNone(execs.inv[i].cursor) \/ Val(execs.inv[i].cursor) \notin execs.open_cursors
  /\ execs.open_connections = HeldConnections
  /\ execs.open_cursors \subseteq execs.open_connections
  /\ (\A i \in Threads : Returned(i)) =>
        execs.open_connections = {} /\ execs.open_cursors = {}

\* One invocation has raised after its statement failed on an open connection,
\* another has returned a fetch, and every connection opened has been used.
C26_Witness ==
  /\ execs.connects = MaxConnects
  /\ \E i, j \in Threads :
        /\ execs.inv[i].pc = "raised" /\ ~IsNone(execs.inv[i].cursor)
        /\ execs.inv[j].pc = "returned" /\ execs.inv[j].outcome = "fetchall"
  /\ execs.open_connections = {}

(***************************************************************************)
(* C27                                                                     *)
(***************************************************************************)
RECURSIVE TapSum(_)
\* The sum of tap_count over the rows S of sessions.
TapSum(S) ==
  IF S = {} THEN 0
  ELSE LET s == CHOOSE x \in S : TRUE
       IN s.tap_count + TapSum(S \ {s})

C28_StreakAtLeastOne ==
  \A r \in DoneCalls("CreateSession") :
     reqs[r].resp.status = 201 /\ UserExists(reqs[r].user) =>
        UserRow(reqs[r].user).streak >= 1

(***************************************************************************)
(* C29                                                                     *)
(***************************************************************************)
\* C29: a finalize call answered 400 has inserted no imu_session_files row
\* and has run no other writing statement.
C29_Refused400WritesNothing ==
  \A r \in DoneCalls("FinalizeImuManifest") :
     reqs[r].resp.status = 400 => reqs[r].ghost.writes = 0

(***************************************************************************)
(* C30                                                                     *)
(***************************************************************************)
\* C30: when session-create calls come one at a time and a call may fail at
\* the datastore between its imu_sessions row and its ledger row, a retry
\* makes no second session: no two rows of imu_sessions have the same user,
\* device, start time and client_upload_id.
C30_RetryAfterLedgerFailure ==
  \A s, t \in 1 .. Len(imu_sessions) :
     /\ imu_sessions[s].user_id = imu_sessions[t].user_id
     /\ imu_sessions[s].device_id = imu_sessions[t].device_id
     /\ imu_sessions[s].start_time_utc = imu_sessions[t].start_time_utc
     /\ imu_sessions[s].by_upload = imu_sessions[t].by_upload
     => s = t
=============================================================================
